---------------------------- MODULE Spec2Model ----------------------------
(***************************************************************************)
(* Order aggregation bot (krv006/Simple-AI-bot): the per-(chat, user)      *)
(* session store of bot/storage.py, the group-message handler of           *)
(* bot/handlers/orders.py and the text helpers it calls.                   *)
(*                                                                         *)
(* Texts are TLA+ strings over ASCII.  The keyword lists of the source     *)
(* also hold Cyrillic entries; no text of the model contains a Cyrillic    *)
(* letter, so those entries can never match and are left out of the lists. *)
(***************************************************************************)
EXTENDS Integers, Sequences, FiniteSets, TLC

(***************************************************************************)
(* Bounds of the model.                                                    *)
(***************************************************************************)
MaxMessages == 2      \* group messages delivered in one behaviour
MaxTime     == 2      \* the clock runs 0..MaxTime
MaxDiffSeconds == 1   \* settings.max_diff_seconds is drawn from 1..MaxDiffSeconds

None == "None"

(***************************************************************************)
(* Strings.                                                                *)
(***************************************************************************)
Char(s, i) == SubSeq(s, i, i)

DigitChars == {"0", "1", "2", "3", "4", "5", "6", "7", "8", "9"}

UpperChars == "ABCDEFGHIJKLMNOPQRSTUVWXYZ"

LowerChars == "abcdefghijklmnopqrstuvwxyz"

IsDigit(c) == c \in DigitChars

IsSpace(c) == c \in {" ", "\t", "\n", "\r"}

\* \w of the re module, restricted to ASCII
IsWordChar(c) ==
    \/ IsDigit(c)
    \/ c = "_"
    \/ \E i \in 1..26 : c = Char(LowerChars, i) \/ c = Char(UpperChars, i)

LowerChar(c) ==
    IF \E i \in 1..26 : c = Char(UpperChars, i)
    THEN Char(LowerChars, CHOOSE i \in 1..26 : c = Char(UpperChars, i))
    ELSE c

RECURSIVE lower(_)
lower(s) == IF s = "" THEN "" ELSE LowerChar(Char(s, 1)) \o lower(SubSeq(s, 2, Len(s)))

\* kw in s
Contains(s, kw) ==
    \E i \in 1..(Len(s) - Len(kw) + 1) : SubSeq(s, i, i + Len(kw) - 1) = kw

AnyIn(s, kws) == \E kw \in kws : Contains(s, kw)

\* not s.strip()
IsBlank(s) == \A i \in 1..Len(s) : IsSpace(Char(s, i))

\* any(ch.isdigit() for ch in text)
HasDigit(s) == \E i \in 1..Len(s) : IsDigit(Char(s, i))

\* re.sub(r"\D", "", s)
RECURSIVE normalize_digits(_)
normalize_digits(s) ==
    IF s = "" THEN ""
    ELSE (IF IsDigit(Char(s, 1)) THEN Char(s, 1) ELSE "")
         \o normalize_digits(SubSeq(s, 2, Len(s)))

\* \b between position i-1 and i of s (1-based; i in 1..Len(s)+1)
WordBoundary(s, i) ==
    LET before == i > 1 /\ IsWordChar(Char(s, i - 1))
        after  == i <= Len(s) /\ IsWordChar(Char(s, i))
    IN  before # after

AllDigits(s, i, j) == \A p \in i..j : IsDigit(Char(s, p))

AllSpaces(s, i, j) == \A p \in i..j : IsSpace(Char(s, p))

StartsAt(s, i, w) == i + Len(w) - 1 <= Len(s) /\ SubSeq(s, i, i + Len(w) - 1) = w

\* str.strip()
strip(s) ==
    IF IsBlank(s) THEN ""
    ELSE LET first == CHOOSE i \in 1..Len(s) :
                          ~IsSpace(Char(s, i)) /\ \A j \in 1..(i - 1) : IsSpace(Char(s, j))
             final == CHOOSE i \in 1..Len(s) :
                          ~IsSpace(Char(s, i)) /\ \A j \in (i + 1)..Len(s) : IsSpace(Char(s, j))
         IN  SubSeq(s, first, final)

\* str.splitlines(), for texts whose only line break is "\n"
RECURSIVE splitlines(_)
splitlines(s) ==
    IF s = "" THEN <<>>
    ELSE IF \E i \in 1..Len(s) : Char(s, i) = "\n"
         THEN LET i == CHOOSE i \in 1..Len(s) :
                           Char(s, i) = "\n" /\ \A j \in 1..(i - 1) : Char(s, j) # "\n"
              IN  <<SubSeq(s, 1, i - 1)>> \o splitlines(SubSeq(s, i + 1, Len(s)))
         ELSE <<s>>

\* s.endswith(w)
EndsWith(s, w) == Len(w) <= Len(s) /\ SubSeq(s, Len(s) - Len(w) + 1, Len(s)) = w

\* s[-7:]
Tail7(s) == IF Len(s) <= 7 THEN s ELSE SubSeq(s, Len(s) - 6, Len(s))

(***************************************************************************)
(* bot/utils/phones.py                                                     *)
(***************************************************************************)
PhoneSeparators == {" ", "-", "(", ")"}

\* first index > p that does not hold a separator
RECURSIVE SkipSeparators(_, _)
SkipSeparators(s, p) ==
    IF p <= Len(s) /\ Char(s, p) \in PhoneSeparators
    THEN SkipSeparators(s, p + 1) ELSE p

\* greedy (?:[ \-\(\)]*\d)* from the digit at pos; n digits matched so far
RECURSIVE PhoneExtend(_, _, _)
PhoneExtend(s, pos, n) ==
    LET j == SkipSeparators(s, pos + 1)
    IN  IF j <= Len(s) /\ IsDigit(Char(s, j))
        THEN PhoneExtend(s, j, n + 1)
        ELSE [end |-> pos, digits |-> n]

\* end of the match of PHONE_REGEX starting at i, 0 when there is none
PhoneMatchEnd(s, i) ==
    LET d == IF Char(s, i) = "+" THEN i + 1 ELSE i
    IN  IF d <= Len(s) /\ IsDigit(Char(s, d))
        THEN LET m == PhoneExtend(s, d, 1)
             IN  IF m.digits >= 8 THEN m.end ELSE 0
        ELSE 0

\* PHONE_REGEX.findall(text): leftmost non-overlapping matches
RECURSIVE PHONE_REGEX_findall(_, _)
PHONE_REGEX_findall(s, i) ==
    IF i > Len(s) THEN <<>>
    ELSE LET e == PhoneMatchEnd(s, i)
         IN  IF e = 0 THEN PHONE_REGEX_findall(s, i + 1)
             ELSE <<SubSeq(s, i, e)>> \o PHONE_REGEX_findall(s, e + 1)

\* normalize_phone that leaves a 9-digit number without the country code
normalize_phone_no_country_code(raw) ==
    LET digits == normalize_digits(raw)
    IN  IF Len(digits) < 9 THEN None ELSE "+" \o digits

\* normalize_phone that keeps a number of 8 digits
normalize_phone_from_8(raw) ==
    LET digits == normalize_digits(raw)
    IN  IF Len(digits) < 8 THEN None
        ELSE IF StartsAt(digits, 1, "998") /\ Len(digits) = 12 THEN "+" \o digits
        ELSE IF Len(digits) = 9 THEN "+998" \o digits
        ELSE "+" \o digits

\* normalize_phone that puts the country code before every number but a full one
normalize_phone_always_local(raw) ==
    LET digits == normalize_digits(raw)
    IN  IF Len(digits) < 9 THEN None
        ELSE IF StartsAt(digits, 1, "998") /\ Len(digits) = 12 THEN "+" \o digits
        ELSE "+998" \o digits

normalize_phone(raw) ==
    LET digits == normalize_digits(raw)
    IN  IF Len(digits) < 9 THEN None
        ELSE IF StartsAt(digits, 1, "998") /\ Len(digits) = 12 THEN "+" \o digits
        ELSE IF Len(digits) = 9 THEN "+998" \o digits
        ELSE "+" \o digits

\* the list returned has no fixed order; the callers use it as a set
extract_phones(text) ==
    IF text = "" THEN {}
    ELSE LET matches == PHONE_REGEX_findall(text, 1)
         IN  {normalize_phone(matches[i]) : i \in DOMAIN matches} \ {None}

\* DIGIT_WORDS_PHONE, lines 72-105
DIGIT_WORDS_PHONE ==
    ("nol" :> "0") @@ ("nolik" :> "0") @@ ("bir" :> "1") @@ ("ikki" :> "2")
    @@ ("uch" :> "3") @@ ("tort" :> "4") @@ ("to'rt" :> "4") @@ ("turt" :> "4")
    @@ ("besh" :> "5") @@ ("olti" :> "6") @@ ("yetti" :> "7") @@ ("etti" :> "7")
    @@ ("sakkiz" :> "8") @@ ("toqqiz" :> "9") @@ ("to'qqiz" :> "9") @@ ("toqiz" :> "9")
    @@ ("on" :> "10") @@ ("yigirma" :> "20") @@ ("ottiz" :> "30") @@ ("o'ttiz" :> "30")
    @@ ("qirq" :> "40") @@ ("ellik" :> "50") @@ ("oltmish" :> "60")
    @@ ("yetmish" :> "70") @@ ("sakson" :> "80") @@ ("to'qson" :> "90")
    @@ ("toqson" :> "90") @@ ("to'qsonlik" :> "90") @@ ("toqsonlik" :> "90")

\* the tokens of line 176
PhoneScaleWords == {"yuz", "ming", "million", "mln"}

\* a character that the substitution of line 151 keeps and the split of line 152
\* does not split at; of the apostrophe variants only "'" is in the alphabet
IsTokenChar(c) == IsWordChar(c) \/ c = "'"

\* end of the token of s that starts at i
RECURSIVE TokenEnd(_, _)
TokenEnd(s, i) ==
    IF i < Len(s) /\ IsTokenChar(Char(s, i + 1)) THEN TokenEnd(s, i + 1) ELSE i

\* lines 151-152: the text cleaned and split at white space, from index i on
RECURSIVE TokensFrom(_, _)
TokensFrom(s, i) ==
    IF i > Len(s) THEN <<>>
    ELSE IF ~IsTokenChar(Char(s, i)) THEN TokensFrom(s, i + 1)
    ELSE <<SubSeq(s, i, TokenEnd(s, i))>> \o TokensFrom(s, TokenEnd(s, i) + 1)

\* lines 108-116; the replaced apostrophe variants are outside the alphabet
_normalize_token(w) == lower(w)

\* _postprocess_phone_digits that keeps the first 9 digits of a long run
_postprocess_phone_digits_head(seq) ==
    IF seq = "" THEN None
    ELSE LET cut == IF Len(seq) > 9 THEN SubSeq(seq, 1, 9) ELSE seq
         IN  IF Len(cut) < 5 THEN None ELSE cut

_postprocess_phone_digits(seq) ==
    IF seq = "" THEN None
    ELSE LET cut == IF Len(seq) > 9 THEN SubSeq(seq, Len(seq) - 8, Len(seq)) ELSE seq
         IN  IF Len(cut) < 5 THEN None ELSE cut

\* flush(), lines 157-165, on the state [current_digits, digit_sequences]
flush(st) ==
    IF st.current_digits = "" THEN st
    ELSE LET processed == _postprocess_phone_digits(st.current_digits)
         IN  [current_digits |-> "",
              digit_sequences |-> IF processed # None
                                  THEN Append(st.digit_sequences, processed)
                                  ELSE st.digit_sequences]

\* the loop body with a scale token ending the run
SpokenStep_scale_flushes(st, tok) ==
    LET w == _normalize_token(tok)
    IN  IF w \in DOMAIN DIGIT_WORDS_PHONE
        THEN [st EXCEPT !.current_digits = @ \o DIGIT_WORDS_PHONE[w]]
        ELSE flush(st)

\* lines 167-180: the loop body for the token tok
SpokenStep(st, tok) ==
    LET w == _normalize_token(tok)
    IN  IF w \in DOMAIN DIGIT_WORDS_PHONE
        THEN [st EXCEPT !.current_digits = @ \o DIGIT_WORDS_PHONE[w]]
        ELSE IF w \in PhoneScaleWords THEN st
        ELSE flush(st)

RECURSIVE SpokenScan(_, _)
SpokenScan(st, tokens) ==
    IF tokens = <<>> THEN flush(st)
    ELSE SpokenScan(SpokenStep(st, Head(tokens)), Tail(tokens))

\* lines 185-188: the first occurrence of every sequence is kept
RECURSIVE Unique(_, _)
Unique(seqs, unique) ==
    IF seqs = <<>> THEN unique
    ELSE Unique(Tail(seqs),
                IF \E i \in DOMAIN unique : unique[i] = Head(seqs)
                THEN unique ELSE Append(unique, Head(seqs)))

extract_spoken_phone_candidates(text) ==
    Unique(SpokenScan([current_digits |-> "", digit_sequences |-> <<>>],
                      TokensFrom(text, 1)).digit_sequences,
           <<>>)

(***************************************************************************)
(* bot/utils/amounts.py.  Its _normalize_token (lines 64-72) is the one of *)
(* phones.py.  MONEY_KEYWORDS and the thousand-words are given without     *)
(* their Cyrillic entries.                                                 *)
(***************************************************************************)
UNITS ==
    ("nol" :> 0) @@ ("bir" :> 1) @@ ("ikki" :> 2) @@ ("uch" :> 3) @@ ("tort" :> 4)
    @@ ("to'rt" :> 4) @@ ("turt" :> 4) @@ ("besh" :> 5) @@ ("olti" :> 6)
    @@ ("yetti" :> 7) @@ ("sakkiz" :> 8) @@ ("toqqiz" :> 9)

TENS ==
    ("on" :> 10) @@ ("yigirma" :> 20) @@ ("ottiz" :> 30) @@ ("o'ttiz" :> 30)
    @@ ("qirq" :> 40) @@ ("ellik" :> 50) @@ ("oltmish" :> 60) @@ ("yetmish" :> 70)
    @@ ("sakson" :> 80) @@ ("to'qson" :> 90) @@ ("toqson" :> 90)
    @@ ("to'qsonlik" :> 90) @@ ("toqsonlik" :> 90)

SCALES == ("yuz" :> 100) @@ ("ming" :> 1000) @@ ("million" :> 1000000) @@ ("mln" :> 1000000)

MONEY_KEYWORDS == {"summa", "sum", "so'm", "som", "ming", "min"}

\* the keywords of line 222
ThousandWords == {"ming", "min"}

DigitValue(c) == CHOOSE n \in 0..9 : Char("0123456789", n + 1) = c

\* int(digits) for a non-empty string of digits
RECURSIVE ParseInt(_)
ParseInt(digits) ==
    IF Len(digits) = 1 THEN DigitValue(digits)
    ELSE 10 * ParseInt(SubSeq(digits, 1, Len(digits) - 1))
         + DigitValue(Char(digits, Len(digits)))

\* the loop body of _parse_number_phrase with an empty accumulator left at 0
PhraseStep_empty_is_zero(st, raw) ==
    LET w == _normalize_token(raw)
    IN  IF w \in DOMAIN UNITS THEN [st EXCEPT !.current = @ + UNITS[w]]
        ELSE IF w \in DOMAIN TENS THEN [st EXCEPT !.current = @ + TENS[w]]
        ELSE IF w \in DOMAIN SCALES
        THEN LET current == st.current * SCALES[w]
             IN  IF SCALES[w] >= 1000
                 THEN [total |-> st.total + current, current |-> 0]
                 ELSE [total |-> st.total, current |-> current]
        ELSE IF w # "" /\ AllDigits(w, 1, Len(w))
        THEN [st EXCEPT !.current = @ + ParseInt(w)]
        ELSE st

\* lines 83-102: the loop body for the token raw.  A token is cut from a text
\* cleaned of "." and ",", so the numeric token of line 98 is a run of digits.
PhraseStep(st, raw) ==
    LET w == _normalize_token(raw)
    IN  IF w \in DOMAIN UNITS THEN [st EXCEPT !.current = @ + UNITS[w]]
        ELSE IF w \in DOMAIN TENS THEN [st EXCEPT !.current = @ + TENS[w]]
        ELSE IF w \in DOMAIN SCALES
        THEN LET current == (IF st.current = 0 THEN 1 ELSE st.current) * SCALES[w]
             IN  IF SCALES[w] >= 1000
                 THEN [total |-> st.total + current, current |-> 0]
                 ELSE [total |-> st.total, current |-> current]
        ELSE IF w # "" /\ AllDigits(w, 1, Len(w))
        THEN [st EXCEPT !.current = @ + ParseInt(w)]
        ELSE st

RECURSIVE PhraseScan(_, _)
PhraseScan(st, tokens) ==
    IF tokens = <<>> THEN st.total + st.current
    ELSE PhraseScan(PhraseStep(st, Head(tokens)), Tail(tokens))

_parse_number_phrase(tokens) == PhraseScan([total |-> 0, current |-> 0], tokens)

\* lines 119-123: the nearest "yuz" before token j, 0 when there is none
RECURSIVE NearestYuz(_, _)
NearestYuz(tokens, k) ==
    IF k < 1 THEN 0
    ELSE IF _normalize_token(tokens[k]) = "yuz" THEN k
    ELSE NearestYuz(tokens, k - 1)

\* lines 116-132 from token j on: the values of the phrases found
RECURSIVE YuzMingFrom(_, _)
YuzMingFrom(tokens, j) ==
    IF j > Len(tokens) THEN <<>>
    ELSE LET yuz_idx == NearestYuz(tokens, j - 1)
             start == IF yuz_idx - 1 < 1 THEN 1 ELSE yuz_idx - 1
             value == _parse_number_phrase(SubSeq(tokens, start, j))
         IN  (IF _normalize_token(tokens[j]) = "ming" /\ yuz_idx # 0 /\ value > 0
              THEN <<value>> ELSE <<>>)
             \o YuzMingFrom(tokens, j + 1)

_extract_yuz_ming_candidates(text) == YuzMingFrom(TokensFrom(lower(text), 1), 1)

_looks_like_phone(digits) ==
    IF digits = "" THEN FALSE
    ELSE IF Len(digits) >= 11 /\ StartsAt(digits, 1, "998") THEN TRUE
    ELSE Len(digits) \in 9..12 /\ Char(digits, 1) \in {"9", "8"}

\* end of the match of \d[\d\s]* whose digits and blanks reach p
RECURSIVE AmountRunEnd(_, _)
AmountRunEnd(s, p) ==
    IF p < Len(s) /\ (IsDigit(Char(s, p + 1)) \/ IsSpace(Char(s, p + 1)))
    THEN AmountRunEnd(s, p + 1) ELSE p

\* re.finditer(r"\d[\d\s]*", s) from index i: the matches as <<first, last>>
RECURSIVE DigitMatches(_, _)
DigitMatches(s, i) ==
    IF i > Len(s) THEN <<>>
    ELSE IF ~IsDigit(Char(s, i)) THEN DigitMatches(s, i + 1)
    ELSE <<(<<i, AmountRunEnd(s, i)>>)>> \o DigitMatches(s, AmountRunEnd(s, i) + 1)

\* lines 209-212: the text 25 characters to either side of the match m
AmountWindow(cleaned, m) ==
    LET window_start == IF m[1] - 1 - 25 < 0 THEN 0 ELSE m[1] - 1 - 25
        window_end == IF m[2] + 25 > Len(cleaned) THEN Len(cleaned) ELSE m[2] + 25
    IN  lower(SubSeq(cleaned, window_start + 1, window_end))

\* the candidate of a match with no penalty for a value under 100
DigitCandidate_no_small_penalty(cleaned, m) ==
    LET base_value == ParseInt(normalize_digits(SubSeq(cleaned, m[1], m[2])))
        window == AmountWindow(cleaned, m)
        by_thousand == base_value < 1000 /\ AnyIn(window, ThousandWords)
        value == base_value * (IF by_thousand THEN 1000 ELSE 1)
    IN  [value |-> value,
         score |-> (IF AnyIn(window, MONEY_KEYWORDS) THEN 3 ELSE 0)
                   + (IF by_thousand THEN 2 ELSE 0)
                   + (IF value >= 1000 THEN 2 ELSE 0),
         first |-> m[1], last |-> m[2]]

\* lines 204-245: the candidate of the match m, with the place of the match
DigitCandidate(cleaned, m) ==
    LET base_value == ParseInt(normalize_digits(SubSeq(cleaned, m[1], m[2])))
        window == AmountWindow(cleaned, m)
        by_thousand == base_value < 1000 /\ AnyIn(window, ThousandWords)
        value == base_value * (IF by_thousand THEN 1000 ELSE 1)
    IN  [value |-> value,
         score |-> (IF AnyIn(window, MONEY_KEYWORDS) THEN 3 ELSE 0)
                   + (IF by_thousand THEN 2 ELSE 0)
                   + (IF value >= 1000 THEN 2 ELSE 0)
                   - (IF 0 < value /\ value < 100 THEN 1 ELSE 0),
         first |-> m[1], last |-> m[2]]

\* lines 180-183: a phrase is a candidate of score 5 that has no place in the text
PhraseCandidates(cleaned) ==
    LET values == _extract_yuz_ming_candidates(cleaned)
    IN  [i \in DOMAIN values |-> [value |-> values[i], score |-> 5, first |-> 0, last |-> 0]]

\* lines 192-245
RECURSIVE DigitCandidates(_, _)
DigitCandidates(cleaned, matches) ==
    IF matches = <<>> THEN <<>>
    ELSE (IF _looks_like_phone(normalize_digits(SubSeq(cleaned, Head(matches)[1],
                                                       Head(matches)[2])))
          THEN <<>> ELSE <<DigitCandidate(cleaned, Head(matches))>>)
         \o DigitCandidates(cleaned, Tail(matches))

\* lines 251-252: the first candidate after the sort by (score, value), descending
BestCandidate(candidates) ==
    CHOOSE i \in DOMAIN candidates :
        /\ \A j \in DOMAIN candidates :
              \/ candidates[j].score < candidates[i].score
              \/ /\ candidates[j].score = candidates[i].score
                 /\ candidates[j].value <= candidates[i].value
        /\ \A j \in 1..(i - 1) :
              \/ candidates[j].score # candidates[i].score
              \/ candidates[j].value # candidates[i].value

\* extract_amount_from_text with the candidates it chose from
extract_amount_run(text) ==
    IF text = "" THEN [amount |-> None, scored |-> <<>>, best |-> 0]
    ELSE LET candidates == PhraseCandidates(text)
                           \o DigitCandidates(text, DigitMatches(text, 1))
         IN  IF candidates = <<>> THEN [amount |-> None, scored |-> <<>>, best |-> 0]
             ELSE [amount |-> candidates[BestCandidate(candidates)].value,
                   scored |-> candidates, best |-> BestCandidate(candidates)]

extract_amount_from_text(text) == extract_amount_run(text).amount

(***************************************************************************)
(* bot/ai/classifier.py                                                    *)
(***************************************************************************)
address_keywords ==
    {"dom", "kv", "kv.", "kvartira", "uy", "eshik", "kvartir", "mavze",
     "orqa eshik", "oldi", "oldida", "mahalla", "mahallasi", "rayon", "tuman"}

product_keywords ==
    {"latte", "cappuccino", "americano", "kofe", "coffee", "espresso",
     "pizza", "burger", "lavash", "doner", "donar", "donerchi",
     "set", "combo", "kombo"}

amount_keywords ==
    {"summa", "sum", "summasi", "ming", "min", "minut",
     "oplacheno", "oplata", "oplachen", "kredit", "bezkredit", "bez kredit",
     "tolov", "tolovsz", "to'lov", "tolanadi", "oplata nal", "nal"}

greeting_keywords == {"salom", "assalomu", "qalesiz", "hello", "hi"}

\* re.search(r"\b\d{2,4}\s*(ming|min|minut)\b", tl)
AmountPatternMing(tl) ==
    \E i \in 1..Len(tl), n \in 2..4, k \in 0..Len(tl), w \in {"ming", "min", "minut"} :
        /\ WordBoundary(tl, i)
        /\ i + n - 1 <= Len(tl) /\ AllDigits(tl, i, i + n - 1)
        /\ i + n + k - 1 <= Len(tl) /\ AllSpaces(tl, i + n, i + n + k - 1)
        /\ StartsAt(tl, i + n + k, w)
        /\ WordBoundary(tl, i + n + k + Len(w))

\* re.search(r"\b\d{2,3}\s*000\b", tl)
AmountPatternThousands(tl) ==
    \E i \in 1..Len(tl), n \in 2..3, k \in 0..Len(tl) :
        /\ WordBoundary(tl, i)
        /\ i + n - 1 <= Len(tl) /\ AllDigits(tl, i, i + n - 1)
        /\ i + n + k - 1 <= Len(tl) /\ AllSpaces(tl, i + n, i + n + k - 1)
        /\ StartsAt(tl, i + n + k, "000")
        /\ WordBoundary(tl, i + n + k + 3)

\* re.search(r"\bsumma\s*\d+", tl)
AmountPatternSumma(tl) ==
    \E i \in 1..Len(tl), k \in 0..Len(tl) :
        /\ WordBoundary(tl, i)
        /\ StartsAt(tl, i, "summa")
        /\ i + 5 + k <= Len(tl) /\ AllSpaces(tl, i + 5, i + 5 + k - 1)
        /\ IsDigit(Char(tl, i + 5 + k))

Verdict(related, role, addr) ==
    [is_order_related |-> related, role |-> role, has_address_keywords |-> addr]

\* _simple_rule_based whose first test forgets "and not has_addr"
_simple_rule_based_product_first(text) ==
    LET tl == lower(text)
        has_addr == AnyIn(tl, address_keywords)
        has_prod == AnyIn(tl, product_keywords)
        has_amount ==
            \/ AnyIn(tl, amount_keywords)
            \/ AmountPatternMing(tl) \/ AmountPatternThousands(tl) \/ AmountPatternSumma(tl)
    IN  IF has_prod \/ has_amount THEN Verdict(TRUE, "PRODUCT", has_addr)
        ELSE IF has_addr THEN Verdict(TRUE, "COMMENT", has_addr)
        ELSE IF AnyIn(tl, greeting_keywords) THEN Verdict(FALSE, "RANDOM", has_addr)
        ELSE Verdict(FALSE, "UNKNOWN", has_addr)

_simple_rule_based(text) ==
    LET tl == lower(text)
        has_addr == AnyIn(tl, address_keywords)
        has_prod == AnyIn(tl, product_keywords)
        has_amount_kw == AnyIn(tl, amount_keywords)
        has_amount_pattern ==
            AmountPatternMing(tl) \/ AmountPatternThousands(tl) \/ AmountPatternSumma(tl)
        has_amount == has_amount_kw \/ has_amount_pattern
    IN  IF (has_prod \/ has_amount) /\ ~has_addr THEN Verdict(TRUE, "PRODUCT", has_addr)
        ELSE IF has_addr THEN Verdict(TRUE, "COMMENT", has_addr)
        ELSE IF AnyIn(tl, greeting_keywords) THEN Verdict(FALSE, "RANDOM", has_addr)
        ELSE Verdict(FALSE, "UNKNOWN", has_addr)

(***************************************************************************)
(* What the external chat-completion call of lines 100-146 can do:         *)
(*   "raise"       the import, the client or the request raises (a         *)
(*                 timeout is an exception of the client);                 *)
(*   "not_json"    the reply is not JSON: json.loads raises;               *)
(*   "not_object"  the reply is JSON but no object: data.get raises;       *)
(*   "object"      the reply is a JSON object, whose three fields the code *)
(*                 reads with data.get.                                    *)
(* A field of the object is "absent" or holds a JSON value, written as its *)
(* JSON text ('no' is a string, to tell it from the markers).              *)
(***************************************************************************)
JsonFlags == {"true", "false", "null", "absent", "'no'"}

JsonRoles == {"PRODUCT", "COMMENT", "RANDOM", "UNKNOWN", "SPAM", "null", "absent"}

JsonObject(related, role, addr) ==
    [is_order_related |-> related, role |-> role, has_address_keywords |-> addr]

\* bool(data.get(field, False))
PyBool(j) == j \in {"true", "'no'"}

\* data.get("role", "UNKNOWN")
GetRole(j) == IF j = "absent" THEN "UNKNOWN" ELSE IF j = "null" THEN None ELSE j

ExternalFailures ==
    {[kind |-> k, data |-> JsonObject("absent", "absent", "absent")] :
        k \in {"raise", "not_json", "not_object"}}

ExternalFailure == [kind |-> "raise", data |-> JsonObject("absent", "absent", "absent")]

\* every reply of the service
AllExternalResponses ==
    ExternalFailures
    \cup {[kind |-> "object", data |-> JsonObject(r, role, a)] :
            r \in JsonFlags, role \in JsonRoles, a \in JsonFlags}

\* the replies the handler is run with
ExternalResponses ==
    {ExternalFailure}
    \cup {[kind |-> "object", data |-> d] :
            d \in {JsonObject("true", "PRODUCT", "false"),
                   JsonObject("false", "UNKNOWN", "absent"),
                   JsonObject("false", "SPAM", "true")}}

\* classify_text_ai with the try of line 100 and no except
classify_text_ai_run_uncaught(config, text, resp, rule_based) ==
    IF IsBlank(text)
    THEN [result |-> Verdict(FALSE, "UNKNOWN", FALSE), invoked |-> {}, raised |-> FALSE]
    ELSE IF ~config.openai_enabled
    THEN [result |-> rule_based, invoked |-> {"_simple_rule_based"}, raised |-> FALSE]
    ELSE IF resp.kind = "object"
    THEN [result |-> Verdict(PyBool(resp.data.is_order_related), GetRole(resp.data.role),
                             PyBool(resp.data.has_address_keywords)),
          invoked |-> {"chat.completions.create"}, raised |-> FALSE]
    ELSE [result |-> Verdict(FALSE, "UNKNOWN", FALSE),
          invoked |-> {"chat.completions.create"}, raised |-> TRUE]

\* classify_text_ai without the test of line 89
classify_text_ai_run_no_blank_test(config, text, resp, rule_based) ==
    IF ~config.openai_enabled
    THEN [result |-> rule_based, invoked |-> {"_simple_rule_based"}, raised |-> FALSE]
    ELSE IF resp.kind = "object"
    THEN [result |-> Verdict(PyBool(resp.data.is_order_related), GetRole(resp.data.role),
                             PyBool(resp.data.has_address_keywords)),
          invoked |-> {"chat.completions.create"}, raised |-> FALSE]
    ELSE [result |-> rule_based,
          invoked |-> {"chat.completions.create", "_simple_rule_based"}, raised |-> FALSE]

(***************************************************************************)
(* One run of classify_text_ai: the verdict returned, what it invoked on   *)
(* the way, and whether an exception left it.  resp is what the external   *)
(* call does, read only when the service is enabled; rule_based is         *)
(* _simple_rule_based(text).                                               *)
(***************************************************************************)
classify_text_ai_run(config, text, resp, rule_based) ==
    IF IsBlank(text)
    THEN [result |-> Verdict(FALSE, "UNKNOWN", FALSE), invoked |-> {}, raised |-> FALSE]
    ELSE IF ~config.openai_enabled
    THEN [result |-> rule_based, invoked |-> {"_simple_rule_based"}, raised |-> FALSE]
    ELSE IF resp.kind = "object"
    THEN [result |-> Verdict(PyBool(resp.data.is_order_related), GetRole(resp.data.role),
                             PyBool(resp.data.has_address_keywords)),
          invoked |-> {"chat.completions.create"}, raised |-> FALSE]
    ELSE [result |-> rule_based,
          invoked |-> {"chat.completions.create", "_simple_rule_based"}, raised |-> FALSE]

\* the verdict the caller gets
classify_text_ai(config, text, resp, rule_based) ==
    classify_text_ai_run(config, text, resp, rule_based).result

(***************************************************************************)
(* bot/handlers/order_utils.py                                             *)
(***************************************************************************)
COMMENT_KEYWORDS ==
    {"kuryer", "kurier", "kur'er",
     "eshik oldida", "eshik oldida kut", "eshik oldida kutib",
     "eshik oldida kutib turaman", "eshik oldida kutib turing",
     "uyga olib chiqib bering", "uyga olib chiqib ber", "uyga olib chiqing",
     "uyga obchiqib bering",
     "orqa eshik", "oldi eshik", "oldida kutaman", "kutib turaman",
     "moshinada kuting", "klientga", "podezd", "podyezd", "etaj", "qavat",
     "kvartira", "kv.", "kv ", "dom", "uy", "mahalla", "mahallasi", "mavze", "tuman"}

\* client_kw, lines 96-110
client_kw == {"mijoz", "mijoz:", "mijoz tel", "telefon klienta", "client", "klient"}

\* shop_kw, lines 112-127
shop_kw == {"magazin", "our shop", "kids plate", "kidsplate"}

\* lines 141-148 and 164-171: the phones ps of a message or line are marked
MarkPhones(phone_role, ps, is_shop, is_client) ==
    [p \in DOMAIN phone_role \cup ps |->
        LET role == IF p \in DOMAIN phone_role THEN phone_role[p] ELSE "unknown"
        IN  IF p \notin ps THEN role
            ELSE IF is_shop THEN "shop"
            ELSE IF is_client /\ role # "shop" THEN "client"
            ELSE role]

\* lines 133-148 (a whole message) and 156-171 (one stripped line)
MarkText(phone_role, text) ==
    LET low == lower(text)
        text_phones == extract_phones(text)
    IN  IF text_phones = {} THEN phone_role
        ELSE MarkPhones(phone_role, text_phones, AnyIn(low, shop_kw), AnyIn(low, client_kw))

\* lines 132-148: first pass, message by message
RECURSIVE MarkMessages(_, _)
MarkMessages(phone_role, raw_messages) ==
    IF raw_messages = <<>> THEN phone_role
    ELSE MarkMessages(MarkText(phone_role, Head(raw_messages)), Tail(raw_messages))

\* lines 152-171: the lines of one message
RECURSIVE MarkLinesOf(_, _)
MarkLinesOf(phone_role, lines) ==
    IF lines = <<>> THEN phone_role
    ELSE LET line == strip(Head(lines))
         IN  MarkLinesOf(IF line = "" THEN phone_role ELSE MarkText(phone_role, line),
                         Tail(lines))

\* lines 151-171: second pass, line by line
RECURSIVE MarkLines(_, _)
MarkLines(phone_role, raw_messages) ==
    IF raw_messages = <<>> THEN phone_role
    ELSE MarkLines(MarkLinesOf(phone_role, splitlines(Head(raw_messages))),
                   Tail(raw_messages))

\* phone_role after both passes, lines 129-171
phone_role_of(raw_messages, phones) ==
    MarkLines(MarkMessages([p \in phones |-> "unknown"], raw_messages), raw_messages)

\* choose_client_phones keeping the shop phones among the others
choose_client_phones_with_shop(raw_messages, phones) ==
    IF phones = {} THEN {}
    ELSE LET phone_role == phone_role_of(raw_messages, phones)
             client_phones == {p \in DOMAIN phone_role : phone_role[p] = "client"}
         IN  IF client_phones # {} THEN client_phones ELSE DOMAIN phone_role

\* the list returned is sorted and free of duplicates: a set
choose_client_phones(raw_messages, phones) ==
    IF phones = {} THEN {}
    ELSE LET phone_role == phone_role_of(raw_messages, phones)
             client_phones == {p \in DOMAIN phone_role : phone_role[p] = "client"}
             non_shop_phones == {p \in DOMAIN phone_role : phone_role[p] # "shop"}
         IN  IF client_phones # {} THEN client_phones
             ELSE IF Cardinality(non_shop_phones) = 1 THEN non_shop_phones
             ELSE IF non_shop_phones # {} THEN non_shop_phones
             ELSE phones

\* the characters of a normalized phone in the order of their code points
PhoneChars == "+0123456789"

CharRank(c) == CHOOSE i \in 1..Len(PhoneChars) : Char(PhoneChars, i) = c

\* a < b for two Python strings: the first character that differs decides, and a
\* proper prefix comes first
RECURSIVE StrLess(_, _)
StrLess(a, b) ==
    IF b = "" THEN FALSE
    ELSE IF a = "" THEN TRUE
    ELSE IF Char(a, 1) = Char(b, 1)
         THEN StrLess(SubSeq(a, 2, Len(a)), SubSeq(b, 2, Len(b)))
         ELSE CharRank(Char(a, 1)) < CharRank(Char(b, 1))

\* the members of a set listed from the largest to the smallest
RECURSIVE sorted_descending(_)
sorted_descending(S) ==
    IF S = {} THEN <<>>
    ELSE LET m == CHOOSE x \in S : \A y \in S \ {x} : StrLess(y, x)
         IN  <<m>> \o sorted_descending(S \ {m})

\* sorted(set(...)) of lines 176, 179 and 184: the members in ascending order
RECURSIVE sorted(_)
sorted(S) ==
    IF S = {} THEN <<>>
    ELSE LET m == CHOOSE x \in S : \A y \in S \ {x} : StrLess(x, y)
         IN  <<m>> \o sorted(S \ {m})

\* the list choose_client_phones returns, lines 91-92 and 174-184
choose_client_phones_list(raw_messages, phones) ==
    IF phones = {} THEN <<>>
    ELSE LET phone_role == phone_role_of(raw_messages, phones)
             client_phones == {p \in DOMAIN phone_role : phone_role[p] = "client"}
             non_shop_phones == sorted({p \in DOMAIN phone_role : phone_role[p] # "shop"})
         IN  IF client_phones # {} THEN sorted(client_phones)
             ELSE IF Len(non_shop_phones) = 1 THEN non_shop_phones
             ELSE IF non_shop_phones # <<>> THEN non_shop_phones
             ELSE sorted(phones)

\* lines 217-224
phone_line_kw == {"telefon:", "telefon "}

\* lines 205-245 for one raw message: where its text goes
LineKind(msg, client_digits) ==
    LET text == strip(msg)
        low == lower(text)
        has_digits == HasDigit(text)
        digits == normalize_digits(text)
        is_pure_client_phone ==
            /\ has_digits /\ digits # ""
            /\ \E cd \in client_digits :
                  cd # "" /\ EndsWith(digits, cd) /\ Len(digits) <= 13
    IN  IF text = "" THEN "skip"
        ELSE IF extract_phones(text) # {} /\ AnyIn(low, phone_line_kw) THEN "skip"
        ELSE IF AnyIn(low, COMMENT_KEYWORDS) THEN "comment"
        ELSE IF has_digits /\ ~is_pure_client_phone THEN "product"
        ELSE "product"

\* the lines of a kind with the latest message first
RECURSIVE LinesOfKind_latest_first(_, _, _)
LinesOfKind_latest_first(raw_messages, client_digits, kind) ==
    IF raw_messages = <<>> THEN <<>>
    ELSE LinesOfKind_latest_first(Tail(raw_messages), client_digits, kind)
         \o (IF LineKind(Head(raw_messages), client_digits) = kind
             THEN <<strip(Head(raw_messages))>> ELSE <<>>)

\* lines 204-245: the texts appended to one of the two lists, in the order of the loop
RECURSIVE LinesOfKind(_, _, _)
LinesOfKind(raw_messages, client_digits, kind) ==
    IF raw_messages = <<>> THEN <<>>
    ELSE (IF LineKind(Head(raw_messages), client_digits) = kind
          THEN <<strip(Head(raw_messages))>> ELSE <<>>)
         \o LinesOfKind(Tail(raw_messages), client_digits, kind)

build_final_texts(raw_messages, phones) ==
    LET client_phones == choose_client_phones(raw_messages, phones)
        client_digits == {Tail7(normalize_digits(p)) :
                             p \in {q \in client_phones : normalize_digits(q) # ""}}
    IN  [client_phones |-> client_phones,
         product_lines |-> LinesOfKind(raw_messages, client_digits, "product"),
         comment_lines |-> LinesOfKind(raw_messages, client_digits, "comment")]

(***************************************************************************)
(* Messages.  A Telegram message carries either a native location or a    *)
(* text (or caption), never both.  from_user is a person and the key is    *)
(* not in a manual-order flow.  A message may be a reply to the message of *)
(* an order sent before (HandleReplyToOrder).                              *)
(***************************************************************************)
Keys == {<<1, 1>>, <<1, 2>>}

\* the participants whose messages Spec delivers
Senders == Keys

NoLocation == [type |-> "none"]

GeoPoints == {[lat |-> 41, lon |-> 69], [lat |-> 40, lon |-> 65]}

Texts == {"", "901234567", "salom", "ok 5", "pizza + cola 45000", "eshik oldida"}

\* texts in which the location extractor may find a location
LocationTexts == {"901234567", "eshik oldida"}

Messages ==
    {[text |-> "", location |-> [type |-> "telegram", lat |-> g.lat, lon |-> g.lon],
      text_has_location |-> FALSE] : g \in GeoPoints}
    \cup {[text |-> t, location |-> NoLocation, text_has_location |-> FALSE] :
            t \in Texts \ {""}}
    \cup {[text |-> t, location |-> NoLocation, text_has_location |-> TRUE] :
            t \in LocationTexts}


(***************************************************************************)
(* bot/utils/locations.py is not part of the sources.  A native location  *)
(* gives a "telegram" location (orders.py:291); for a text the extractor   *)
(* either finds a location in it or returns nothing (orders.py:298-305     *)
(* handles a text message without one): text_has_location is its decision. *)
(***************************************************************************)
extract_location_from_message(msg) ==
    IF msg.location # NoLocation THEN msg.location
    ELSE IF ~IsBlank(msg.text) /\ msg.text_has_location
         THEN [type |-> "text", raw |-> strip(msg.text)]
    ELSE NoLocation

(***************************************************************************)
(* bot/models.py is not part of the sources: a new OrderSession is empty,  *)
(* not completed, stamped with the time of its construction.               *)
(***************************************************************************)
OrderSession(key, t) ==
    [key |-> key, raw_messages |-> <<>>, phones |-> {}, location |-> NoLocation,
     is_completed |-> FALSE, created_at |-> t, updated_at |-> t]

(***************************************************************************)
(* bot/storage.py.  Sessions are objects: H is the heap (session id ->     *)
(* object), S the SESSIONS dict (key -> session id, 0 when absent).        *)
(***************************************************************************)
\* get_or_create_session that keeps a session however long it was idle
get_or_create_session_keeps_stale(S, H, max_diff_seconds, key, t) ==
    LET fresh == Len(H) + 1
    IN  IF S[key] # 0 THEN [S |-> S, H |-> H, sid |-> S[key]]
        ELSE [S |-> [S EXCEPT ![key] = fresh],
              H |-> Append(H, OrderSession(key, t)), sid |-> fresh]

\* get_or_create_session that builds the session and does not store it
get_or_create_session_unstored(S, H, max_diff_seconds, key, t) ==
    LET sid == S[key]
    IN  IF sid # 0 /\ t - H[sid].updated_at <= max_diff_seconds
        THEN [S |-> S, H |-> H, sid |-> sid]
        ELSE [S |-> S, H |-> Append(H, OrderSession(key, t)), sid |-> Len(H) + 1]

get_or_create_session(S, H, max_diff_seconds, key, t) ==
    LET sid   == S[key]
        fresh == Len(H) + 1
        made  == [S |-> [S EXCEPT ![key] = fresh],
                  H |-> Append(H, OrderSession(key, t)), sid |-> fresh]
    IN  IF sid # 0
        THEN IF t - H[sid].updated_at > max_diff_seconds
             THEN made
             ELSE [S |-> S, H |-> H, sid |-> sid]
        ELSE made

\* is_session_ready that looks at the phones alone
is_session_ready_phones_only(session) == session.phones # {}

\* is_session_ready that looks at the location alone
is_session_ready_location_only(session) == session.location # NoLocation

\* is_session_ready with "or" in place of "and"
is_session_ready_either(session) ==
    session.phones # {} \/ session.location # NoLocation

\* bool(session.phones and session.location)
is_session_ready(session) ==
    IF session.phones = {} THEN FALSE ELSE session.location # NoLocation

finalize_session(S, H, key) ==
    IF S[key] = 0 THEN [H |-> H, sid |-> 0]
    ELSE [H |-> [H EXCEPT ![S[key]].is_completed = TRUE], sid |-> S[key]]

\* clear_session that empties the whole store
clear_session_all(S, key) == [k \in DOMAIN S |-> 0]

clear_session(S, key) == IF S[key] # 0 THEN [S EXCEPT ![key] = 0] ELSE S

(***************************************************************************)
(* bot/handlers/orders.py, handle_group_message                            *)
(***************************************************************************)
money_kw == {"summa", "ming", "min"}

\* the handler without its early return on a completed session
SkipsCompleted_never(session) == FALSE

\* lines 480-482: a completed session takes no further message
SkipsCompleted(session) == session.is_completed

\* the message put in front of raw_messages
UpdateSession_prepends(session, text, phones_in_msg, loc) ==
    [session EXCEPT
        !.raw_messages = IF text # "" THEN <<text>> \o @ ELSE @,
        !.phones       = @ \cup phones_in_msg,
        !.location     = IF loc # NoLocation THEN loc ELSE @]

\* the update that stores the location of every message, also a missing one
UpdateSession_location_of_message(session, text, phones_in_msg, loc) ==
    [session EXCEPT
        !.raw_messages = IF text # "" THEN Append(@, text) ELSE @,
        !.phones       = @ \cup phones_in_msg,
        !.location     = loc]

\* lines 484-499: the message is applied to the session
UpdateSession(session, text, phones_in_msg, loc) ==
    [session EXCEPT
        !.raw_messages = IF text # "" THEN Append(@, text) ELSE @,
        !.phones       = @ \cup phones_in_msg,
        !.location     = IF loc # NoLocation THEN loc ELSE @]

has_product_candidate(text) == HasDigit(text) \/ AnyIn(lower(text), money_kw)

\* lines 584-588
FallbackRole(role, text) ==
    IF role = "UNKNOWN"
    THEN IF AnyIn(lower(text), COMMENT_KEYWORDS) THEN "COMMENT"
         ELSE IF has_product_candidate(text) THEN "PRODUCT"
         ELSE role
    ELSE role

\* lines 591-597
IsNonOrder(config, is_order_related, phones_in_msg, msg) ==
    /\ config.error_group_id
    /\ ~is_order_related
    /\ phones_in_msg = {}
    /\ msg.location = NoLocation
    /\ ~IsBlank(msg.text)

\* should_finalize without the address-keyword trigger
should_finalize_without_address(just_got_location, role, has_addr_kw, phones_new, product_candidate) ==
    \/ just_got_location
    \/ role = "PRODUCT"
    \/ phones_new
    \/ product_candidate

\* lines 652-658
should_finalize(just_got_location, role, has_addr_kw, phones_new, product_candidate) ==
    \/ just_got_location
    \/ role = "PRODUCT"
    \/ has_addr_kw
    \/ phones_new
    \/ product_candidate

(***************************************************************************)
(* The text functions above, tabulated once over the texts of the model    *)
(* (the handler below reads the tables instead of re-evaluating them).     *)
(***************************************************************************)
Roles == {"PRODUCT", "COMMENT", "RANDOM", "UNKNOWN", "SPAM"}

extract_phones_of == [t \in Texts |-> extract_phones(t)]

rule_based_of == [t \in Texts |-> _simple_rule_based(t)]

is_blank_of == [t \in Texts |-> IsBlank(t)]

product_candidate_of == [t \in Texts |-> has_product_candidate(t)]

fallback_role_of == [r \in Roles, t \in Texts |-> FallbackRole(r, t)]


(***************************************************************************)
(* State.                                                                  *)
(***************************************************************************)
VARIABLES
    settings,   \* the Settings the handlers were registered with
    now,        \* datetime.now(timezone.utc), in units of one second
    SESSIONS,   \* storage.SESSIONS: key -> session id, 0 when the key is absent
    heap,       \* the OrderSession objects, by session id
    inflight,   \* handle_group_message invocations suspended at an await
    tasks,      \* finalize_and_send_after_delay tasks created and not finished
    orders,     \* final orders emitted so far
    delivered,  \* number of group messages delivered to the handler
    hist,       \* history, per session id: what the session has received
    last,       \* history: what the latest step did
    call,       \* a function of the helpers applied on its own: arguments and result
    manual_order_state,  \* orders.py:37, key -> state of the manual order, NoManual when absent
    manual_inflight,     \* handle_manual_order_step invocations suspended at an await
    manual_out           \* prompts posted after a cancel, manual orders sent, dataset lines

manual_vars == <<manual_order_state, manual_inflight, manual_out>>

vars == <<settings, now, SESSIONS, heap, inflight, tasks, orders, delivered, hist, last,
          call, manual_order_state, manual_inflight, manual_out>>

RemoveAt(seq, i) == SubSeq(seq, 1, i - 1) \o SubSeq(seq, i + 1, Len(seq))

NoMessage == [text |-> "", location |-> NoLocation, text_has_location |-> FALSE]

NoEvent ==
    [op |-> "init", n |-> 0, key |-> <<0, 0>>, sid |-> 0, msg |-> NoMessage,
     role_product |-> FALSE, address_keywords |-> FALSE,
     oldsid |-> 0, stale |-> FALSE, was_completed |-> FALSE,
     skipped |-> FALSE, changed |-> FALSE, first_location |-> FALSE,
     first_phone |-> FALSE, suspended |-> FALSE, raised |-> FALSE,
     diverted |-> FALSE, decided |-> FALSE, ready |-> FALSE,
     completed |-> FALSE, scheduled |-> FALSE, acted |-> FALSE]

NoCall == [fn |-> "none"]

NoHistory == [phone_message |-> FALSE, location_message |-> FALSE, completions |-> 0]

\* manual_order_state.get(key) of a key the dictionary does not hold
NoManual == [step |-> "none"]

Init ==
    /\ settings \in [max_diff_seconds : 1..MaxDiffSeconds,
                     error_group_id : BOOLEAN,
                     ai_check_group_id : BOOLEAN,
                     openai_enabled : BOOLEAN]
    /\ now = 0
    /\ SESSIONS = [k \in Keys |-> 0]
    /\ heap = <<>>
    /\ inflight = <<>>
    /\ tasks = <<>>
    /\ orders = <<>>
    /\ delivered = 0
    /\ hist = <<>>
    /\ last = NoEvent
    /\ call = NoCall
    /\ manual_order_state = [k \in Keys |-> NoManual]
    /\ manual_inflight = <<>>
    /\ manual_out = [prompts |-> {}, messages |-> 0, dataset |-> 0]

(***************************************************************************)
(* Lines 575-674 for the invocation h on heap H at time t: the non-order   *)
(* path, the refresh of updated_at and the decision to finalize.  The      *)
(* awaits of the non-order path (line 624) are followed by no statement    *)
(* that touches the state, so they are not a separate step.                *)
(***************************************************************************)
Decision(h, H, t) ==
    LET text == h.msg.text
        role == fallback_role_of[h.verdict.role, text]
    IN  IF IsNonOrder(settings, h.verdict.is_order_related, h.phones_in_msg, h.msg)
        THEN [H |-> H, diverted |-> TRUE, decided |-> FALSE, ready |-> FALSE,
              completed |-> FALSE, schedule |-> FALSE]
        ELSE LET H1    == [H EXCEPT ![h.sid].updated_at = t]
                 ready == is_session_ready(H1[h.sid])
             IN  [H |-> H1, diverted |-> FALSE, decided |-> TRUE, ready |-> ready,
                  completed |-> H1[h.sid].is_completed,
                  schedule |->
                      /\ ready
                      /\ ~H1[h.sid].is_completed
                      /\ should_finalize(h.just_got_location, role,
                                         h.verdict.has_address_keywords,
                                         h.phones_new, product_candidate_of[text])]

\* asyncio.create_task(finalize_and_send_after_delay(key=key, ...)), line 666
NewTask(h) == [key |-> h.key, sid |-> h.sid, pc |-> "sleep"]

(***************************************************************************)
(* A group message for key arrives: lines 445-545.  classify_text_ai has   *)
(* no await inside (the OpenAI client call is synchronous), so the handler *)
(* runs without suspension up to the send of the AI_CHECK diagnostic.      *)
(***************************************************************************)
HandleGroupMessage(key, msg, resp) ==
    /\ delivered < MaxMessages
    /\ LET g       == get_or_create_session(SESSIONS, heap, settings.max_diff_seconds, key, now)
           created == Len(g.H) > Len(heap)
           session == g.H[g.sid]
           hist1   == IF created THEN Append(hist, NoHistory) ELSE hist
           ev0     == [NoEvent EXCEPT
                          !.op = "msg", !.n = delivered + 1, !.key = key, !.sid = g.sid,
                          !.msg = msg, !.oldsid = SESSIONS[key],
                          !.stale =
                              (SESSIONS[key] # 0
                               /\ now - heap[SESSIONS[key]].updated_at
                                      > settings.max_diff_seconds),
                          !.was_completed =
                              (SESSIONS[key] # 0 /\ heap[SESSIONS[key]].is_completed)]
       IN  IF SkipsCompleted(session)
           THEN /\ SESSIONS' = g.S
                /\ heap' = g.H
                /\ hist' = hist1
                /\ last' = [ev0 EXCEPT !.skipped = TRUE]
                /\ UNCHANGED <<inflight, tasks>>
           ELSE LET text          == msg.text
                    phones_in_msg == extract_phones_of[text]
                    loc           == extract_location_from_message(msg)
                    updated       == UpdateSession(session, text, phones_in_msg, loc)
                    H1            == [g.H EXCEPT ![g.sid] = updated]
                    verdict       == classify_text_ai(settings, text, resp, rule_based_of[text])
                    h == [key |-> key, sid |-> g.sid, msg |-> msg,
                          verdict |-> verdict, phones_in_msg |-> phones_in_msg,
                          phones_new |-> (updated.phones # {} /\ session.phones = {}),
                          just_got_location |->
                              (loc # NoLocation /\ session.location = NoLocation),
                          changed |-> (updated # session),
                          first_location |->
                              (session.location = NoLocation
                               /\ updated.location # NoLocation),
                          first_phone |-> (session.phones = {} /\ phones_in_msg # {})]
                    ev1 == [ev0 EXCEPT
                               !.role_product = (verdict.role = "PRODUCT"),
                               !.address_keywords = verdict.has_address_keywords,
                               !.changed = h.changed,
                               !.first_location = h.first_location,
                               !.first_phone = h.first_phone]
                    hist2 == [hist1 EXCEPT
                                 ![g.sid].phone_message = @ \/ phones_in_msg # {},
                                 ![g.sid].location_message = @ \/ loc # NoLocation]
                IN  /\ SESSIONS' = g.S
                    /\ hist' = hist2
                    /\ IF settings.ai_check_group_id
                       THEN /\ heap' = H1
                            /\ inflight' = Append(inflight, h)
                            /\ last' = [ev1 EXCEPT !.suspended = TRUE]
                            /\ UNCHANGED tasks
                       ELSE LET d == Decision(h, H1, now)
                            IN  /\ heap' = d.H
                                /\ tasks' = IF d.schedule THEN Append(tasks, NewTask(h))
                                            ELSE tasks
                                /\ last' = [ev1 EXCEPT
                                               !.diverted = d.diverted,
                                               !.decided = d.decided,
                                               !.ready = d.ready,
                                               !.completed = d.completed,
                                               !.scheduled = d.schedule]
                                /\ UNCHANGED inflight
    /\ delivered' = delivered + 1
    /\ UNCHANGED <<settings, now, orders>>
    /\ UNCHANGED call
    /\ UNCHANGED manual_vars

(***************************************************************************)
(* The await of line 545 returns: the diagnostic was sent or the send      *)
(* raised TelegramBadRequest (caught, line 548), and the handler goes on   *)
(* with lines 555-674.                                                     *)
(***************************************************************************)
AiCheckSent(i) ==
    /\ i \in DOMAIN inflight
    /\ LET h == inflight[i]
           d == Decision(h, heap, now)
       IN  /\ heap' = d.H
           /\ tasks' = IF d.schedule THEN Append(tasks, NewTask(h)) ELSE tasks
           /\ last' = [NoEvent EXCEPT
                          !.op = "resume", !.key = h.key, !.sid = h.sid,
                          !.msg = h.msg, !.role_product = (h.verdict.role = "PRODUCT"),
                          !.address_keywords = h.verdict.has_address_keywords,
                          !.changed = h.changed,
                          !.first_location = h.first_location,
                          !.first_phone = h.first_phone,
                          !.diverted = d.diverted, !.decided = d.decided,
                          !.ready = d.ready, !.completed = d.completed,
                          !.scheduled = d.schedule]
    /\ inflight' = RemoveAt(inflight, i)
    /\ UNCHANGED <<settings, now, SESSIONS, orders, delivered, hist>>
    /\ UNCHANGED call
    /\ UNCHANGED manual_vars

(***************************************************************************)
(* The await of line 545 raises an exception other than                    *)
(* TelegramBadRequest (no rights in the group, network failure, flood      *)
(* control): nothing catches it and the invocation ends there.             *)
(***************************************************************************)
AiCheckRaised(i) ==
    /\ i \in DOMAIN inflight
    /\ LET h == inflight[i]
       IN  last' = [NoEvent EXCEPT
                       !.op = "resume", !.key = h.key, !.sid = h.sid,
                       !.msg = h.msg, !.role_product = (h.verdict.role = "PRODUCT"),
                       !.address_keywords = h.verdict.has_address_keywords,
                       !.changed = h.changed,
                       !.first_location = h.first_location,
                       !.first_phone = h.first_phone, !.raised = TRUE]
    /\ inflight' = RemoveAt(inflight, i)
    /\ UNCHANGED <<settings, now, SESSIONS, heap, tasks, orders, delivered, hist>>
    /\ UNCHANGED call
    /\ UNCHANGED manual_vars

(***************************************************************************)
(* bot/handlers/order_finalize.py is not part of the sources.  The task    *)
(* is modelled from the design: it sleeps, then acts only when the key     *)
(* still holds the session it was created for and that session is not yet  *)
(* completed; it marks the session completed (storage.finalize_session),   *)
(* sends the order, and clears the session whatever the send did.          *)
(***************************************************************************)
\* a task that acts on its session again after it was completed
FinalizeApplies_again(S, H, task) == S[task.key] = task.sid

\* a task that acts on whatever session the key holds
FinalizeApplies_by_key(S, H, task) ==
    /\ S[task.key] # 0
    /\ ~H[S[task.key]].is_completed

FinalizeApplies(S, H, task) ==
    /\ S[task.key] = task.sid
    /\ ~H[task.sid].is_completed

\* the delay is over
FinalizeFire(j) ==
    /\ j \in DOMAIN tasks
    /\ tasks[j].pc = "sleep"
    /\ LET task == tasks[j]
           ev   == [NoEvent EXCEPT !.op = "fire", !.key = task.key,
                                   !.sid = task.sid, !.oldsid = SESSIONS[task.key]]
       IN  IF FinalizeApplies(SESSIONS, heap, task)
           THEN LET f == finalize_session(SESSIONS, heap, task.key)
                IN  /\ heap' = f.H
                    /\ hist' = [hist EXCEPT ![f.sid].completions =
                                   @ + (IF heap[f.sid].is_completed THEN 0 ELSE 1)]
                    /\ tasks' = [tasks EXCEPT ![j].pc = "send"]
                    /\ last' = [ev EXCEPT !.acted = TRUE]
           ELSE /\ tasks' = RemoveAt(tasks, j)
                /\ last' = ev
                /\ UNCHANGED <<heap, hist>>
    /\ UNCHANGED <<settings, now, SESSIONS, inflight, orders, delivered>>
    /\ UNCHANGED call
    /\ UNCHANGED manual_vars

\* the send of the order has returned, with or without success
FinalizeEmit(j) ==
    /\ j \in DOMAIN tasks
    /\ tasks[j].pc = "send"
    /\ LET task    == tasks[j]
           session == heap[task.sid]
       IN  /\ orders' = Append(orders,
                               [sid |-> task.sid, key |-> task.key,
                                phones |-> session.phones,
                                location |-> session.location,
                                raw_messages |-> session.raw_messages,
                                cancelled |-> FALSE])
           /\ SESSIONS' = IF SESSIONS[task.key] = task.sid
                          THEN clear_session(SESSIONS, task.key)
                          ELSE SESSIONS
           /\ last' = [NoEvent EXCEPT !.op = "emit", !.key = task.key,
                                      !.sid = task.sid, !.oldsid = SESSIONS[task.key],
                                      !.acted = TRUE]
    /\ tasks' = RemoveAt(tasks, j)
    /\ UNCHANGED <<settings, now, heap, inflight, delivered, hist>>
    /\ UNCHANGED call
    /\ UNCHANGED manual_vars

(***************************************************************************)
(* What parse_order_message_text, cancel_order_row and save_order_row do   *)
(* for a reply to the message of an order (orders.py:57-63, 88-101,        *)
(* 157-170):                                                               *)
(*   "unparsed"       the order message gives no parsed fields or no id;   *)
(*   "cancel_raises"  cancel_order_row raises;                             *)
(*   "not_cancelled"  the row is not found or is cancelled already;        *)
(*   "save_raises"    the row is cancelled and save_order_row raises;      *)
(*   "saved"          the row is cancelled and the new row is saved.       *)
(***************************************************************************)
ReplyOutcomes == {"unparsed", "cancel_raises", "not_cancelled", "save_raises", "saved"}

\* orders.py:41-248 for the message msg that replies to the message of order
handle_order_reply_update(msg, order, outcome) ==
    LET new_loc        == extract_location_from_message(msg)
        reply_phones   == extract_phones_of[msg.text]
        phones_changed == reply_phones # {} /\ reply_phones # order.phones
        has_new_loc    == new_loc # NoLocation
    IN  IF outcome = "unparsed" \/ (~has_new_loc /\ ~phones_changed)
        THEN [handled |-> FALSE, cancelled |-> FALSE, saved |-> FALSE,
              phones |-> order.phones, location |-> order.location]
        ELSE [handled |-> TRUE,
              cancelled |-> outcome \in {"save_raises", "saved"},
              saved |-> outcome = "saved",
              phones |-> IF phones_changed THEN reply_phones ELSE order.phones,
              location |-> IF has_new_loc THEN new_loc ELSE order.location]

\* the store when the handler goes on to line 477 after an update it handled
StoreAfterReplyUpdate_goes_on(S, H, max_diff_seconds, key, t) ==
    LET g == get_or_create_session(S, H, max_diff_seconds, key, t)
    IN  [S |-> g.S, H |-> g.H]

\* lines 456-458: the handler returns after an update it handled
StoreAfterReplyUpdate(S, H, max_diff_seconds, key, t) == [S |-> S, H |-> H]

(***************************************************************************)
(* A group message for key arrives that replies to the message of order j: *)
(* lines 455-458.  When the update is not handled the message is treated   *)
(* as any other message.  The awaits of the update path are followed by no *)
(* statement that touches the sessions, so the path is one step; the task  *)
(* of line 226 only removes the keyboard of the message sent.              *)
(***************************************************************************)
HandleReplyToOrder(key, msg, resp, j, outcome) ==
    /\ j \in DOMAIN orders
    /\ LET r == handle_order_reply_update(msg, orders[j], outcome)
       IN  IF r.handled
           THEN /\ delivered < MaxMessages
                /\ delivered' = delivered + 1
                /\ LET store == StoreAfterReplyUpdate(SESSIONS, heap,
                                                      settings.max_diff_seconds, key, now)
                   IN  /\ SESSIONS' = store.S
                       /\ heap' = store.H
                       /\ hist' = IF Len(store.H) > Len(heap)
                                  THEN Append(hist, NoHistory) ELSE hist
                /\ orders' =
                      LET marked == IF r.cancelled
                                    THEN [orders EXCEPT ![j].cancelled = TRUE]
                                    ELSE orders
                      IN  IF r.saved
                          THEN Append(marked,
                                      [sid |-> 0, key |-> key, phones |-> r.phones,
                                       location |-> r.location,
                                       raw_messages |-> orders[j].raw_messages,
                                       cancelled |-> FALSE])
                          ELSE marked
                /\ last' = [NoEvent EXCEPT
                               !.op = "reply_update", !.n = delivered + 1, !.key = key,
                               !.msg = msg, !.oldsid = SESSIONS[key],
                               !.acted = r.saved]
                /\ UNCHANGED <<settings, now, inflight, tasks>>
                /\ UNCHANGED call
                /\ UNCHANGED manual_vars
           ELSE HandleGroupMessage(key, msg, resp)

\* one second passes
Tick ==
    /\ now < MaxTime
    /\ now' = now + 1
    /\ last' = [NoEvent EXCEPT !.op = "tick"]
    /\ UNCHANGED <<settings, SESSIONS, heap, inflight, tasks, orders, delivered, hist>>
    /\ UNCHANGED call
    /\ UNCHANGED manual_vars

\* the database is asked only for a changed phone set or a new location, and a
\* row that is cancelled already is not cancelled again
OutcomesOf(msg, order) ==
    IF ~handle_order_reply_update(msg, order, "saved").handled THEN {"unparsed"}
    ELSE IF order.cancelled THEN {"unparsed", "cancel_raises", "not_cancelled"}
    ELSE ReplyOutcomes

\* the reply of the external service is read only for a non-blank text
Replies(msg) ==
    IF settings.openai_enabled /\ ~is_blank_of[msg.text] THEN ExternalResponses
    ELSE {ExternalFailure}

Next ==
    \/ \E key \in Senders, msg \in Messages :
          \E resp \in Replies(msg) : HandleGroupMessage(key, msg, resp)
    \/ \E j \in DOMAIN orders : \E key \in Senders, msg \in Messages :
          \E outcome \in OutcomesOf(msg, orders[j]), resp \in Replies(msg) :
              HandleReplyToOrder(key, msg, resp, j, outcome)
    \/ \E i \in 1..MaxMessages : AiCheckSent(i)
    \/ \E i \in 1..MaxMessages : AiCheckRaised(i)
    \/ \E j \in 1..MaxMessages : FinalizeFire(j)
    \/ \E j \in 1..MaxMessages : FinalizeEmit(j)
    \/ Tick

Spec == Init /\ [][Next]_vars

(***************************************************************************)
(* The manual order after a cancel: orders.py:250-431 and 676-768.  The    *)
(* module order_manual.py holds the same step handler (lines 28-214) but   *)
(* is imported nowhere; the handlers registered are the nested ones.       *)
(***************************************************************************)
MaxManualDelivered == 4   \* group messages delivered in one behaviour with manual orders

\* data of a state: the keys a step has not set yet are absent in the code
NoData == [amount |-> None, location |-> NoLocation, phones |-> {}]

\* lines 755-759: the state a press of the button creates
NewManualState(from_order_id) ==
    [step |-> "amount", from_order_id |-> from_order_id, data |-> NoData]

\* a step handler that leaves a message without valid input to the aggregation
handle_manual_order_step_passes_invalid(state, msg) ==
    LET text   == strip(msg.text)
        loc    == extract_location_from_message(msg)
        phones == extract_phones_of[msg.text]
    IN  IF state = NoManual
        THEN [handled |-> FALSE, state |-> state, awaits |-> FALSE]
        ELSE IF state.step = "amount"
        THEN IF text = ""
             THEN [handled |-> FALSE, state |-> state, awaits |-> FALSE]
             ELSE [handled |-> TRUE, awaits |-> FALSE,
                   state |-> [state EXCEPT !.data.amount = text, !.step = "location"]]
        ELSE IF state.step = "location"
        THEN IF loc # NoLocation
             THEN [handled |-> TRUE, awaits |-> FALSE,
                   state |-> [state EXCEPT !.data.location = loc, !.step = "phones"]]
             ELSE IF text # ""
             THEN [handled |-> TRUE, awaits |-> FALSE,
                   state |-> [state EXCEPT !.data.location = [type |-> "text", raw |-> text],
                                           !.step = "phones"]]
             ELSE [handled |-> FALSE, state |-> state, awaits |-> FALSE]
        ELSE IF state.step = "phones"
        THEN IF phones = {}
             THEN [handled |-> FALSE, state |-> state, awaits |-> FALSE]
             ELSE [handled |-> TRUE, awaits |-> TRUE,
                   state |-> [state EXCEPT !.data.phones = phones]]
        ELSE [handled |-> FALSE, state |-> state, awaits |-> FALSE]

(***************************************************************************)
(* Lines 257-335 and 431 for the state of the key and the message: whether *)
(* the message is handled, the state the statements before the first await *)
(* leave, and whether the handler goes on to save the order (awaits).  The *)
(* reply of lines 272, 282, 309, 315 and 328 is the last statement of its  *)
(* branch, so what it does changes nothing.                                *)
(***************************************************************************)
handle_manual_order_step(state, msg) ==
    LET text   == strip(msg.text)
        loc    == extract_location_from_message(msg)
        phones == extract_phones_of[msg.text]
    IN  IF state = NoManual
        THEN [handled |-> FALSE, state |-> state, awaits |-> FALSE]
        ELSE IF state.step = "amount"
        THEN IF text = ""
             THEN [handled |-> TRUE, state |-> state, awaits |-> FALSE]
             ELSE [handled |-> TRUE, awaits |-> FALSE,
                   state |-> [state EXCEPT !.data.amount = text, !.step = "location"]]
        ELSE IF state.step = "location"
        THEN IF loc # NoLocation
             THEN [handled |-> TRUE, awaits |-> FALSE,
                   state |-> [state EXCEPT !.data.location = loc, !.step = "phones"]]
             ELSE IF text # ""
             THEN [handled |-> TRUE, awaits |-> FALSE,
                   state |-> [state EXCEPT !.data.location = [type |-> "text", raw |-> text],
                                           !.step = "phones"]]
             ELSE [handled |-> TRUE, state |-> state, awaits |-> FALSE]
        ELSE IF state.step = "phones"
        THEN IF phones = {}
             THEN [handled |-> TRUE, state |-> state, awaits |-> FALSE]
             ELSE [handled |-> TRUE, awaits |-> TRUE,
                   state |-> [state EXCEPT !.data.phones = phones]]
        ELSE [handled |-> FALSE, state |-> state, awaits |-> FALSE]

(***************************************************************************)
(* A group message arrives for a key that has a manual order state: lines  *)
(* 448-452 and the step handler up to its first await after               *)
(* save_order_row (line 344 or line 390).  saved is what save_order_row    *)
(* did: TRUE for a row written, FALSE for an exception.                    *)
(***************************************************************************)
HandleManualOrder(key, msg, resp, saved) ==
    /\ manual_order_state[key] # NoManual
    /\ LET state == manual_order_state[key]
           r     == handle_manual_order_step(state, msg)
       IN  IF r.handled
           THEN /\ delivered < MaxManualDelivered
                /\ delivered' = delivered + 1
                /\ manual_order_state' = [manual_order_state EXCEPT ![key] = r.state]
                /\ manual_inflight' =
                      IF r.awaits
                      THEN Append(manual_inflight, [key |-> key, saved |-> saved])
                      ELSE manual_inflight
                /\ orders' =
                      IF r.awaits /\ saved
                      THEN Append(orders,
                                  [sid |-> 0, key |-> key, phones |-> r.state.data.phones,
                                   location |-> r.state.data.location,
                                   raw_messages |-> <<r.state.data.amount>>,
                                   cancelled |-> FALSE])
                      ELSE orders
                /\ last' = [NoEvent EXCEPT
                               !.op = "manual", !.n = delivered + 1, !.key = key,
                               !.msg = msg, !.oldsid = SESSIONS[key],
                               !.changed = (r.state # state),
                               !.suspended = r.awaits,
                               !.acted = (r.awaits /\ saved)]
                /\ UNCHANGED <<settings, now, SESSIONS, heap, inflight, tasks, hist>>
                /\ UNCHANGED manual_out
                /\ UNCHANGED call
           ELSE HandleGroupMessage(key, msg, resp)

(***************************************************************************)
(* What the awaits of a suspended step handler did:                        *)
(*   "completed"     every send went through (the order message possibly   *)
(*                   by the fallback of line 401);                         *)
(*   "send_raises"   the send of the order message raised an exception     *)
(*                   other than TelegramBadRequest, or the fallback        *)
(*                   raised;                                               *)
(*   "reply_raises"  the reply of line 344 or of line 427 raised.          *)
(* Nothing catches the exceptions of the last two.                         *)
(***************************************************************************)
ResumeOutcomes(h) ==
    IF h.saved THEN {"completed", "send_raises", "reply_raises"}
    ELSE {"completed", "reply_raises"}

\* lines 345 and 428 are reached only when no await before them raised
PopsState(outcome) == outcome = "completed"

(***************************************************************************)
(* The suspended step handler i runs to its end: lines 344-346 after a     *)
(* failed save, lines 390-429 after a save.  No statement between the      *)
(* awaits of lines 390-427 reads or writes the state of a key, so they are *)
(* one step.                                                               *)
(***************************************************************************)
ManualOrderResume(i, outcome) ==
    /\ i \in DOMAIN manual_inflight
    /\ LET h == manual_inflight[i]
       IN  /\ outcome \in ResumeOutcomes(h)
           /\ manual_out' =
                 IF h.saved /\ outcome # "send_raises"
                 THEN [manual_out EXCEPT !.messages = @ + 1, !.dataset = @ + 1]
                 ELSE manual_out
           /\ manual_order_state' =
                 IF PopsState(outcome)
                 THEN [manual_order_state EXCEPT ![h.key] = NoManual]
                 ELSE manual_order_state
           /\ last' = [NoEvent EXCEPT
                          !.op = "manual_resume", !.key = h.key,
                          !.raised = (outcome # "completed"), !.acted = h.saved]
    /\ manual_inflight' = RemoveAt(manual_inflight, i)
    /\ UNCHANGED <<settings, now, SESSIONS, heap, inflight, tasks, orders, delivered, hist>>
    /\ UNCHANGED call

(***************************************************************************)
(* What cancel_order_row and the reply with the two buttons did for a      *)
(* press of the cancel button of order j (lines 687-729):                  *)
(*   "cancel_raises"  cancel_order_row raised;                             *)
(*   "not_cancelled"  the row is not found or is cancelled already;        *)
(*   "unprompted"     the row is cancelled, the reply raised               *)
(*                    TelegramBadRequest (caught, line 728);               *)
(*   "prompted"       the row is cancelled and the buttons are posted.     *)
(***************************************************************************)
CancelOutcomes(order) ==
    IF order.cancelled THEN {"cancel_raises", "not_cancelled"}
    ELSE {"cancel_raises", "not_cancelled", "unprompted", "prompted"}

\* lines 676-731: the button of the message of order j is pressed
HandleCancelOrder(j, outcome) ==
    /\ j \in DOMAIN orders
    /\ outcome \in CancelOutcomes(orders[j])
    /\ orders' = IF outcome \in {"unprompted", "prompted"}
                 THEN [orders EXCEPT ![j].cancelled = TRUE]
                 ELSE orders
    /\ manual_out' = IF outcome = "prompted"
                     THEN [manual_out EXCEPT !.prompts = @ \cup {j}]
                     ELSE manual_out
    /\ last' = [NoEvent EXCEPT !.op = "cancel_order", !.key = orders[j].key,
                               !.acted = (outcome \in {"unprompted", "prompted"})]
    /\ UNCHANGED <<settings, now, SESSIONS, heap, inflight, tasks, delivered, hist>>
    /\ UNCHANGED <<manual_order_state, manual_inflight>>
    /\ UNCHANGED call

(***************************************************************************)
(* Lines 741-768: the user of key presses the button for a new order under *)
(* the prompt of the cancelled order j.  The prompt keeps its buttons, so  *)
(* the press can come again, from any user of the chat.                    *)
(***************************************************************************)
HandleNewAfterCancelYes(key, j) ==
    /\ j \in manual_out.prompts
    /\ manual_order_state' = [manual_order_state EXCEPT ![key] = NewManualState(j)]
    /\ last' = [NoEvent EXCEPT !.op = "new_after_cancel_yes", !.key = key]
    /\ UNCHANGED <<settings, now, SESSIONS, heap, inflight, tasks, orders, delivered, hist>>
    /\ UNCHANGED <<manual_inflight, manual_out>>
    /\ UNCHANGED call

\* line 449: the keys whose messages go to the reply path and the aggregation
Aggregating == {k \in Senders : manual_order_state[k] = NoManual}

\* the messages of the aggregation that lead to an order, or to an open session
OrderMessages ==
    {[text |-> "901234567", location |-> NoLocation, text_has_location |-> TRUE],
     [text |-> "salom", location |-> NoLocation, text_has_location |-> FALSE]}

\* the messages of a manual order: a sticker, a location, a phone, a text
ManualMessages ==
    {NoMessage,
     [text |-> "", location |-> [type |-> "telegram", lat |-> 41, lon |-> 69],
      text_has_location |-> FALSE],
     [text |-> "901234567", location |-> NoLocation, text_has_location |-> FALSE],
     [text |-> "salom", location |-> NoLocation, text_has_location |-> FALSE]}

NextManual ==
    \/ \E key \in Aggregating, msg \in OrderMessages :
          HandleGroupMessage(key, msg, ExternalFailure)
    \/ \E j \in 1..MaxMessages : FinalizeFire(j)
    \/ \E j \in 1..MaxMessages : FinalizeEmit(j)
    \/ \E j \in DOMAIN orders : \E outcome \in CancelOutcomes(orders[j]) :
          HandleCancelOrder(j, outcome)
    \/ \E j \in manual_out.prompts : \E key \in Senders : HandleNewAfterCancelYes(key, j)
    \/ \E key \in Senders \ Aggregating : \E msg \in ManualMessages, saved \in BOOLEAN :
          HandleManualOrder(key, msg, ExternalFailure, saved)
    \/ \E i \in DOMAIN manual_inflight : \E outcome \in ResumeOutcomes(manual_inflight[i]) :
          ManualOrderResume(i, outcome)

\* the manual order reads no setting and no clock: the external service and the
\* diagnostic groups are off, and the behaviour stays within one second
InitManual ==
    /\ Init
    /\ ~settings.openai_enabled
    /\ ~settings.error_group_id
    /\ ~settings.ai_check_group_id

SpecManual == InitManual /\ [][NextManual]_vars

(***************************************************************************)
(* The helpers applied on their own: one step applies one function to      *)
(* arguments drawn from the sets below and records arguments and result.   *)
(***************************************************************************)
\* raw messages the phone election and the line partition are applied to
ElectionTexts ==
    {"901111111", "902222222", "magazin 901111111", "mijoz 902222222",
     "magazin 901111111\n902222222", "1111111", "pizza + cola 45000",
     "eshik oldida", "telefon: 901111111"}

ElectionPhones == {"+998901111111", "+998902222222"}

RECURSIVE SeqsUpTo(_, _)
SeqsUpTo(S, n) ==
    IF n = 0 THEN {<<>>}
    ELSE LET shorter == SeqsUpTo(S, n - 1)
         IN  shorter \cup {Append(q, x) : q \in shorter, x \in S}

RawMessageInputs == SeqsUpTo(ElectionTexts, MaxMessages)

\* raw messages for the line partition: blank messages, a text with blanks around
\* it, and three messages with a phone line that has a label
PartitionInputs ==
    RawMessageInputs
    \cup {<<" ">>, <<"", "pizza + cola 45000">>, <<" pizza + cola 45000 ", " \n">>,
          <<" ", "pizza + cola 45000", "eshik oldida">>,
          <<"902222222", "telefon: 901111111", "pizza + cola 45000">>}

\* texts the classifier is applied to
ClassifierTexts == Texts \cup {" ", " \n"}

CallChooseClientPhones(raw_messages, phones) ==
    /\ call = NoCall
    /\ call' = [fn |-> "choose_client_phones", raw_messages |-> raw_messages,
                phones |-> phones,
                result |-> choose_client_phones(raw_messages, phones),
                returned |-> choose_client_phones_list(raw_messages, phones)]
    /\ UNCHANGED <<settings, now, SESSIONS, heap, inflight, tasks, orders, delivered,
                   hist, last>>
    /\ UNCHANGED manual_vars

CallBuildFinalTexts(raw_messages, phones) ==
    /\ call = NoCall
    /\ call' = [fn |-> "build_final_texts", raw_messages |-> raw_messages,
                phones |-> phones,
                texts |-> build_final_texts(raw_messages, phones)]
    /\ UNCHANGED <<settings, now, SESSIONS, heap, inflight, tasks, orders, delivered,
                   hist, last>>
    /\ UNCHANGED manual_vars

CallClassifyTextAi(text, resp) ==
    /\ call = NoCall
    /\ call' = [fn |-> "classify_text_ai", text |-> text, resp |-> resp,
                run |-> classify_text_ai_run(settings, text, resp,
                                             _simple_rule_based(text))]
    /\ UNCHANGED <<settings, now, SESSIONS, heap, inflight, tasks, orders, delivered,
                   hist, last>>
    /\ UNCHANGED manual_vars

NextFunctions ==
    \/ \E raw_messages \in RawMessageInputs, phones \in SUBSET ElectionPhones :
          CallChooseClientPhones(raw_messages, phones)
    \/ \E raw_messages \in PartitionInputs, phones \in SUBSET ElectionPhones :
          CallBuildFinalTexts(raw_messages, phones)
    \/ \E text \in ClassifierTexts, resp \in AllExternalResponses :
          CallClassifyTextAi(text, resp)

\* the functions read no setting but classify_text_ai, which reads openai_enabled
InitFunctions ==
    /\ Init
    /\ settings.max_diff_seconds = 1
    /\ ~settings.error_group_id
    /\ ~settings.ai_check_group_id

SpecFunctions == InitFunctions /\ [][NextFunctions]_vars

(***************************************************************************)
(* The text extractors and the rule-based classifier applied on their own. *)
(***************************************************************************)
\* texts the rule-based classifier is applied to
RuleTexts ==
    {"pizza", "PIZZA 2", "summa 5", "45 ming", "277 000", "12 minut", "nal",
     "eshik oldida", "pizza eshik oldida", "45 ming uy", "salom", "Hello",
     "salom pizza", "salom dom", "ok", "5", ""}

CallSimpleRuleBased(text) ==
    /\ call = NoCall
    /\ call' = [fn |-> "_simple_rule_based", text |-> text,
                verdict |-> _simple_rule_based(text)]
    /\ UNCHANGED <<settings, now, SESSIONS, heap, inflight, tasks, orders, delivered,
                   hist, last>>
    /\ UNCHANGED manual_vars

\* texts extract_phones is applied to
PhoneTexts ==
    {"", "901234567", "tel 901234567 ok", "a901234567b", "ok 5 x 901234567",
     "12 901234567", "901234567 45000", "90 123 45 67", "(90) 123-45-67",
     "+998901234567", "998901234567", "998 90 123 45 67", "12345678", "+12345678",
     "1234567", "1234567890", "123456789012", "901234567, 1234567890",
     "901234567 902345678", "901234567\n902345678", "901234567 x 12345678"}

CallExtractPhones(text) ==
    /\ call = NoCall
    /\ call' = [fn |-> "extract_phones", text |-> text, found |-> extract_phones(text)]
    /\ UNCHANGED <<settings, now, SESSIONS, heap, inflight, tasks, orders, delivered,
                   hist, last>>
    /\ UNCHANGED manual_vars

\* texts extract_spoken_phone_candidates is applied to
SpokenTexts ==
    {"", "salom", "bir ikki uch tort", "bir ikki uch tort besh",
     "toqson bir ikki uch tort besh olti yetti",
     "toqson toqson bir ikki uch tort besh olti yetti",
     "bir ikki yuz uch tort besh", "yuz bir ikki uch tort besh",
     "bir ikki uch tort besh ming olti yetti sakkiz toqqiz nol",
     "bir ikki uch tort besh va bir ikki uch tort besh",
     "bir ikki uch tort besh olti x bir ikki",
     "tel: To'qson bir, ikki-uch tort BESH.", "ikki yuz ellik ming",
     "bir ikki uch 45 tort besh olti yetti sakkiz",
     "bir ikki x toqson toqson bir ikki uch tort besh olti yetti"}

CallExtractSpokenPhoneCandidates(text) ==
    /\ call = NoCall
    /\ call' = [fn |-> "extract_spoken_phone_candidates", text |-> text,
                candidates |-> extract_spoken_phone_candidates(text)]
    /\ UNCHANGED <<settings, now, SESSIONS, heap, inflight, tasks, orders, delivered,
                   hist, last>>
    /\ UNCHANGED manual_vars

UnitWords == <<"bir", "ikki", "uch", "tort", "besh", "olti", "yetti", "sakkiz", "toqqiz">>

TensWords ==
    <<"on", "yigirma", "ottiz", "qirq", "ellik", "oltmish", "yetmish", "sakson", "toqson">>

\* the numeral of 1000 * (100 * h + 10 * t + u) as tokens; h = 10 is "yuz" on its own
PhraseTokens(h, t, u) ==
    (IF h = 0 THEN <<>> ELSE IF h = 10 THEN <<"yuz">> ELSE <<UnitWords[h], "yuz">>)
    \o (IF t = 0 THEN <<>> ELSE <<TensWords[t]>>)
    \o (IF u = 0 THEN <<>> ELSE <<UnitWords[u]>>)
    \o <<"ming">>

PhraseHundreds == {0, 2, 9, 10}

PhraseTens == {0, 5, 9}

PhraseUnits == {0, 7}

RECURSIVE JoinTokens(_)
JoinTokens(tokens) ==
    IF tokens = <<>> THEN ""
    ELSE IF Len(tokens) = 1 THEN tokens[1]
    ELSE tokens[1] \o " " \o JoinTokens(Tail(tokens))

\* token lists _parse_number_phrase is applied to
PhraseInputs ==
    {PhraseTokens(h, t, u) : h \in PhraseHundreds, t \in PhraseTens, u \in PhraseUnits}
    \cup {<<"salom", "yuz", "ming">>, <<"5", "yuz", "ming">>, <<"uch", "yuz">>, <<>>,
          <<"bir", "million", "ikki", "yuz", "ming">>, <<"300", "ming">>}

CallParseNumberPhrase(tokens) ==
    /\ call = NoCall
    /\ call' = [fn |-> "_parse_number_phrase", tokens |-> tokens,
                value |-> _parse_number_phrase(tokens)]
    /\ UNCHANGED <<settings, now, SESSIONS, heap, inflight, tasks, orders, delivered,
                   hist, last>>
    /\ UNCHANGED manual_vars

\* digit values written before the thousand-word
SmallValues == {0, 7, 25, 99, 100, 300, 999}

\* texts extract_amount_from_text is applied to
AmountTexts ==
    {"", "ok", "5", "0", "99", "100", "999", "1000", "45000", "277 000", "100 50",
     "25 min", "12 minut", "uch yuz ming so'm", "ikki yuz ellik ming 5", "ellik ming",
     "summa 45000", "pizza 2 ta 45000", "2 lavash 30000", "45000 va 50000",
     "50000 va 45000", "0 va 5", "500,1000", "50 100 ming",
     "5 dona lavash va yana bitta katta cola, summa",
     "5 som, lavash va yana bitta katta cola 1000",
     "901234567", "901234567 summa 45000", "998901234567", "+998 90 123 45 67",
     "331234567", "tel 331234567 summa 45000", "1234567890", "90-123-45-67 45 ming",
     "(90) 123-45-67", "12345678"}
    \cup {JoinTokens(PhraseTokens(h, t, u)) : h \in PhraseHundreds, t \in PhraseTens,
                                              u \in PhraseUnits}
    \cup {ToString(n) \o " ming" : n \in SmallValues}

CallExtractAmountFromText(text) ==
    /\ call = NoCall
    /\ call' = [fn |-> "extract_amount_from_text", text |-> text,
                chosen |-> extract_amount_run(text)]
    /\ UNCHANGED <<settings, now, SESSIONS, heap, inflight, tasks, orders, delivered,
                   hist, last>>
    /\ UNCHANGED manual_vars

NextExtractors ==
    \/ \E text \in RuleTexts : CallSimpleRuleBased(text)
    \/ \E tokens \in PhraseInputs : CallParseNumberPhrase(tokens)
    \/ \E text \in AmountTexts : CallExtractAmountFromText(text)
    \/ \E text \in SpokenTexts : CallExtractSpokenPhoneCandidates(text)
    \/ \E text \in PhoneTexts : CallExtractPhones(text)

SpecExtractors == InitFunctions /\ [][NextExtractors]_vars

TypeOK ==
    /\ now \in 0..MaxTime
    /\ delivered \in 0..MaxMessages
    /\ Len(heap) = Len(hist)
    /\ \A k \in Keys : SESSIONS[k] \in 0..Len(heap)
    /\ \A k \in Keys : SESSIONS[k] # 0 => heap[SESSIONS[k]].key = k

(***************************************************************************)
(* Properties.                                                             *)
(***************************************************************************)
\* the latest step ended an invocation of the handler past line 482
Handled == last.op \in {"msg", "resume"} /\ ~last.skipped /\ ~last.suspended

\* ... and the handler returned (no exception)
Returned == Handled /\ ~last.raised

\* the session as the design reads it: phones present and a location set
HasPhonesAndLocation(session) ==
    session.phones # {} /\ session.location # NoLocation

\* the triggers (a) to (e) for the message of the latest step
TriggerHolds ==
    \/ last.first_location
    \/ last.role_product
    \/ last.address_keywords
    \/ last.first_phone
    \/ HasDigit(last.msg.text)
    \/ AnyIn(lower(last.msg.text), money_kw)

C2_ReadyIffPhonesAndLocation ==
    /\ \A sid \in DOMAIN heap :
          is_session_ready(heap[sid]) <=> HasPhonesAndLocation(heap[sid])
    /\ (Handled /\ last.decided) =>
          (last.ready <=> HasPhonesAndLocation(heap[last.sid]))

\* a handler that was suspended finds its session ready when it resumes
C2_Witness ==
    /\ last.op = "resume" /\ last.decided /\ last.ready
    /\ ~(last.first_location /\ last.first_phone)

(***************************************************************************)
(* C3: a session is ready only after it received a phone-bearing message   *)
(* and a location-bearing message; phone-bearing messages alone, or        *)
(* location-bearing messages alone, never make it ready.                   *)
(***************************************************************************)
C3_ReadyNeedsBoth ==
    \A sid \in DOMAIN heap :
        is_session_ready(heap[sid]) =>
            hist[sid].phone_message /\ hist[sid].location_message

\* the location arrives after the phone and makes the session ready
C3_Witness ==
    /\ last.op = "msg" /\ ~last.skipped
    /\ last.first_location /\ ~last.first_phone
    /\ is_session_ready(heap[last.sid])

(***************************************************************************)
(* C4, as claimed: a message for a key whose stored session is completed   *)
(* changes nothing of the store and schedules or emits nothing.            *)
(***************************************************************************)
StoredCompleted(key) == SESSIONS[key] # 0 /\ heap[SESSIONS[key]].is_completed

StoredStale(key) ==
    SESSIONS[key] # 0
    /\ now - heap[SESSIONS[key]].updated_at > settings.max_diff_seconds

C4_CompletedIgnored ==
    [][(last'.op = "msg" /\ StoredCompleted(last'.key))
          => UNCHANGED <<SESSIONS, heap, tasks, orders>>]_vars

(***************************************************************************)
(* C4, amended: such a message changes nothing unless the completed        *)
(* session has been idle longer than max_diff_seconds (then                *)
(* get_or_create_session replaces it and the message goes to the new one). *)
(***************************************************************************)
C4_CompletedIgnoredUnlessStale ==
    [][(last'.op = "msg" /\ StoredCompleted(last'.key) /\ ~StoredStale(last'.key))
          => UNCHANGED <<SESSIONS, heap, tasks, orders>>]_vars

\* a message has just been dropped at a completed session
C4_Witness ==
    /\ last.op = "msg" /\ last.skipped
    /\ last.was_completed /\ ~last.stale
    /\ last.msg.text # ""

(***************************************************************************)
(* C5: a message for a key whose session was idle longer than              *)
(* max_diff_seconds gets a new session under that key, which holds what    *)
(* this message brought and nothing of the old session.                    *)
(***************************************************************************)
C5_StaleReplaced ==
    (last.op = "msg" /\ last.stale) =>
        LET session == heap[last.sid]
            text    == last.msg.text
        IN  /\ last.sid # last.oldsid
            /\ SESSIONS[last.key] = last.sid
            /\ session.raw_messages = (IF text # "" THEN <<text>> ELSE <<>>)
            /\ session.phones = extract_phones(text)
            /\ session.location = extract_location_from_message(last.msg)
            /\ ~session.is_completed

\* the old session held phones and a location, the new one holds neither
C5_Witness ==
    /\ last.op = "msg" /\ last.stale
    /\ HasPhonesAndLocation(heap[last.oldsid])
    /\ heap[last.sid].phones = {}
    /\ heap[last.sid].location = NoLocation

(***************************************************************************)
(* C6: no session is completed more than once and none has more than one  *)
(* final order, also when several messages scheduled its finalization.     *)
(***************************************************************************)
OrdersOf(sid) == {i \in DOMAIN orders : orders[i].sid = sid}

C8_NoInterleaving ==
    [][last'.op = "msg"
          => \A i \in DOMAIN inflight : inflight[i].key # last'.key]_vars

(***************************************************************************)
(* C9: once a session has a location, no later message changes it.        *)
(***************************************************************************)
C9_LocationFirstWins ==
    [][\A sid \in DOMAIN heap :
          heap[sid].location # NoLocation
              => heap'[sid].location = heap[sid].location]_vars

(***************************************************************************)
(* C10: when handle_group_message has returned for a message that changed  *)
(* raw_messages, phones or location of a session, updated_at of that       *)
(* session is the time of the return.                                      *)
(***************************************************************************)
C10_AcceptedRefreshes ==
    (Returned /\ last.changed) => heap[last.sid].updated_at = now

\* the latest step applied a message to a session (lines 484-499 ran)
Applied == last.op = "msg" /\ ~last.skipped

(***************************************************************************)
(* C11: raw_messages of a session only grows at its end: a step that       *)
(* applies a message with a non-empty text appends exactly that text, and  *)
(* every other step (a message without text included) leaves it as it was. *)
(***************************************************************************)
C11_RawMessagesAppendOnly ==
    [][\A sid \in DOMAIN heap' :
          LET old == IF sid \in DOMAIN heap THEN heap[sid].raw_messages ELSE <<>>
              new == heap'[sid].raw_messages
          IN  IF Applied' /\ last'.sid = sid /\ last'.msg.text # ""
              THEN new = Append(old, last'.msg.text)
              ELSE new = old]_vars

C11_Witness ==
    /\ Applied /\ last.msg.text # ""
    /\ Len(heap[last.sid].raw_messages) = 2
    /\ heap[last.sid].raw_messages[1] # heap[last.sid].raw_messages[2]

(***************************************************************************)
(* C12: no session object is stored under two keys, the session stored     *)
(* under a key is a session of that key, and the session the handler got   *)
(* from get_or_create_session is the one stored under the message's key    *)
(* (the one that was there when it was not stale).                         *)
(***************************************************************************)
C12_OneSessionPerKey ==
    /\ \A k1, k2 \in Keys :
          (SESSIONS[k1] # 0 /\ SESSIONS[k1] = SESSIONS[k2]) => k1 = k2
    /\ \A k \in Keys : SESSIONS[k] # 0 => heap[SESSIONS[k]].key = k
    /\ last.op = "msg" =>
          /\ last.sid # 0
          /\ SESSIONS[last.key] = last.sid
          /\ (last.oldsid # 0 /\ ~last.stale) => last.sid = last.oldsid
          /\ (last.oldsid = 0 \/ last.stale) => last.sid = Len(heap)

C12_Witness ==
    /\ last.op = "msg" /\ last.oldsid = 0
    /\ \A k \in Keys : SESSIONS[k] # 0

(***************************************************************************)
(* C13: a step of the handler or of the finalize task for key K changes    *)
(* neither which session another key holds nor that session.               *)
(***************************************************************************)
C13_OtherKeysUntouched ==
    [][last'.op \in {"msg", "resume", "fire", "emit"}
          => \A k \in Keys \ {last'.key} :
                /\ SESSIONS'[k] = SESSIONS[k]
                /\ SESSIONS[k] # 0 => heap'[SESSIONS[k]] = heap[SESSIONS[k]]]_vars

C13_Witness ==
    /\ last.op = "emit" /\ last.acted
    /\ SESSIONS[last.key] = 0
    /\ \E k \in Keys \ {last.key} :
          SESSIONS[k] # 0 /\ heap[SESSIONS[k]].raw_messages # <<>>


\* the latest step ended the handling of a native location that followed,
\* in a fresh session, the one text "pizza + cola 45000"
PizzaThenLocation ==
    /\ Handled
    /\ last.msg.location # NoLocation
    /\ heap[last.sid].raw_messages = <<"pizza + cola 45000">>
    /\ heap[last.sid].phones = {}

(***************************************************************************)
(* C14, as claimed: the native location that follows the product text in   *)
(* a fresh session triggers finalization, and the product lines of the     *)
(* session are exactly the product text.                                   *)
(***************************************************************************)
C14_PizzaThenLocationFinalizes ==
    PizzaThenLocation =>
        /\ last.scheduled
        /\ build_final_texts(heap[last.sid].raw_messages, heap[last.sid].phones)
               .product_lines = <<"pizza + cola 45000">>

(***************************************************************************)
(* C14, amended: the session then has a location and no phone, is not      *)
(* ready, and nothing is scheduled; the product lines build_final_texts    *)
(* derives from the session are exactly the product text.                  *)
(***************************************************************************)
C14_PizzaThenLocationNotReady ==
    PizzaThenLocation =>
        /\ ~last.scheduled
        /\ ~is_session_ready(heap[last.sid])
        /\ heap[last.sid].location # NoLocation
        /\ \A j \in DOMAIN tasks : tasks[j].sid # last.sid
        /\ build_final_texts(heap[last.sid].raw_messages, heap[last.sid].phones)
               .product_lines = <<"pizza + cola 45000">>

C14_Witness ==
    /\ PizzaThenLocation
    /\ last.decided /\ last.first_location
    /\ last.oldsid = last.sid

(***************************************************************************)
(* The marks of the phone election, read off the raw messages: a phone is  *)
(* marked shop when a message or a line that holds it holds a shop         *)
(* keyword, and client when it is not marked shop and a message or a line  *)
(* that holds it holds a client keyword.                                   *)
(***************************************************************************)
StrippedLines(raw_messages) ==
    UNION {{strip(splitlines(raw_messages[i])[k]) :
               k \in 1..Len(splitlines(raw_messages[i]))} : i \in DOMAIN raw_messages}
        \ {""}

ScannedTexts(raw_messages) ==
    {raw_messages[i] : i \in DOMAIN raw_messages} \cup StrippedLines(raw_messages)

MarkedPhones(raw_messages, phones) ==
    phones \cup UNION {extract_phones(t) : t \in ScannedTexts(raw_messages)}

ShopMarked(p, raw_messages) ==
    \E t \in ScannedTexts(raw_messages) :
        p \in extract_phones(t) /\ AnyIn(lower(t), shop_kw)

ClientMarked(p, raw_messages) ==
    /\ ~ShopMarked(p, raw_messages)
    /\ \E t \in ScannedTexts(raw_messages) :
          p \in extract_phones(t) /\ AnyIn(lower(t), client_kw)

ClientPhones(raw_messages, phones) ==
    {p \in MarkedPhones(raw_messages, phones) : ClientMarked(p, raw_messages)}

NonShopPhones(raw_messages, phones) ==
    {p \in MarkedPhones(raw_messages, phones) : ~ShopMarked(p, raw_messages)}

(***************************************************************************)
(* C15, as claimed: given phones, choose_client_phones returns the phones  *)
(* marked client when there is one, and otherwise the phones not marked    *)
(* shop; no phone marked shop is returned.                                 *)
(***************************************************************************)
C15_ClientElseNonShop ==
    (call.fn = "choose_client_phones" /\ call.phones # {}) =>
        /\ call.result =
              IF ClientPhones(call.raw_messages, call.phones) # {}
              THEN ClientPhones(call.raw_messages, call.phones)
              ELSE NonShopPhones(call.raw_messages, call.phones)
        /\ \A p \in call.result : ~ShopMarked(p, call.raw_messages)

(***************************************************************************)
(* C15, amended: given no phones choose_client_phones returns none;        *)
(* otherwise the phones marked client when there is one; otherwise the     *)
(* phones not marked shop when there is one; otherwise, every phone being  *)
(* marked shop, all the phones it was given.                               *)
(***************************************************************************)
C15_ClientElseNonShopElseAll ==
    call.fn = "choose_client_phones" =>
        call.result =
            IF call.phones = {} THEN {}
            ELSE IF ClientPhones(call.raw_messages, call.phones) # {}
            THEN ClientPhones(call.raw_messages, call.phones)
            ELSE IF NonShopPhones(call.raw_messages, call.phones) # {}
            THEN NonShopPhones(call.raw_messages, call.phones)
            ELSE call.phones

C15_Witness ==
    /\ call.fn = "choose_client_phones"
    /\ Cardinality(call.phones) = 2
    /\ \A p \in call.phones : ShopMarked(p, call.raw_messages)
    /\ call.result = call.phones

(***************************************************************************)
(* C16: when the session holds two phones, one on a line with a shop       *)
(* keyword and the other only on lines with neither a shop nor a client    *)
(* keyword, choose_client_phones returns the other phone alone.            *)
(***************************************************************************)
C16_OnlyTheNonShopPhone ==
    call.fn = "choose_client_phones" =>
        \A shop \in call.phones, other \in call.phones :
            (/\ shop # other
             /\ call.phones = {shop, other}
             /\ MarkedPhones(call.raw_messages, call.phones) = call.phones
             /\ \E t \in StrippedLines(call.raw_messages) :
                   shop \in extract_phones(t) /\ AnyIn(lower(t), shop_kw)
             /\ \E t \in StrippedLines(call.raw_messages) : other \in extract_phones(t)
             /\ \A t \in StrippedLines(call.raw_messages) :
                   other \in extract_phones(t)
                       => ~AnyIn(lower(t), shop_kw) /\ ~AnyIn(lower(t), client_kw))
            => call.result = {other}

(***************************************************************************)
(* C17: build_final_texts puts a raw message with a comment keyword in the *)
(* comment lines and any other in the product lines, but a message whose   *)
(* digits are the tail of an elected customer phone in neither (in the     *)
(* comment lines only when it holds a comment keyword).                    *)
(***************************************************************************)
IsPhoneEcho(text, client_phones) ==
    /\ HasDigit(text)
    /\ \E p \in client_phones :
          /\ normalize_digits(p) # ""
          /\ EndsWith(normalize_digits(text), Tail7(normalize_digits(p)))
          /\ Len(normalize_digits(text)) <= 13

\* a message that holds a phone and a label such as "telefon:", which
\* build_final_texts leaves out of both lists; C17 is stated for the others
IsLabelledPhoneLine(msg) ==
    extract_phones(strip(msg)) # {} /\ AnyIn(lower(strip(msg)), phone_line_kw)

RECURSIVE SelectTexts(_, _, _, _)
SelectTexts(raw_messages, client_phones, comment, echo_too) ==
    IF raw_messages = <<>> THEN <<>>
    ELSE LET text == strip(Head(raw_messages))
             keep == /\ text # ""
                     /\ AnyIn(lower(text), COMMENT_KEYWORDS) = comment
                     /\ echo_too \/ ~IsPhoneEcho(text, client_phones)
         IN  (IF keep THEN <<text>> ELSE <<>>)
             \o SelectTexts(Tail(raw_messages), client_phones, comment, echo_too)

C17_CommentElseProductButEcho ==
    (/\ call.fn = "build_final_texts"
     /\ \A i \in DOMAIN call.raw_messages : ~IsLabelledPhoneLine(call.raw_messages[i])) =>
        /\ call.texts.comment_lines =
              SelectTexts(call.raw_messages, call.texts.client_phones, TRUE, TRUE)
        /\ call.texts.product_lines =
              SelectTexts(call.raw_messages, call.texts.client_phones, FALSE, FALSE)

\* a failure of the external path of classify_text_ai
ExternalPathFails ==
    \/ ~settings.openai_enabled
    \/ call.resp.kind \in {"raise", "not_json", "not_object"}

(***************************************************************************)
(* C18: for a non-blank text, when the service is disabled, raises, or     *)
(* replies with something that is not a JSON object, classify_text_ai      *)
(* returns the verdict of _simple_rule_based(text) and raises nothing.     *)
(***************************************************************************)
C18_FailureGivesRuleBased ==
    (call.fn = "classify_text_ai" /\ ~IsBlank(call.text) /\ ExternalPathFails) =>
        /\ ~call.run.raised
        /\ call.run.result = _simple_rule_based(call.text)

C18_Witness ==
    /\ call.fn = "classify_text_ai"
    /\ settings.openai_enabled
    /\ call.resp.kind = "not_object"
    /\ call.text = "pizza + cola 45000"
    /\ call.run.result.role = "PRODUCT"

(***************************************************************************)
(* C19: every verdict of classify_text_ai has one of the four roles and    *)
(* two boolean flags.                                                      *)
(***************************************************************************)
C19_VerdictWellFormed ==
    call.fn = "classify_text_ai" =>
        /\ call.run.result.role \in {"PRODUCT", "COMMENT", "RANDOM", "UNKNOWN"}
        /\ call.run.result.is_order_related \in BOOLEAN
        /\ call.run.result.has_address_keywords \in BOOLEAN

(***************************************************************************)
(* C20: for an empty or whitespace-only text classify_text_ai returns      *)
(* UNKNOWN, not order-related, no address keywords, and invokes neither    *)
(* the rule-based pass nor the external service, whatever the settings.    *)
(***************************************************************************)
C20_BlankIsUnknown ==
    (call.fn = "classify_text_ai" /\ IsBlank(call.text)) =>
        /\ call.run.result = Verdict(FALSE, "UNKNOWN", FALSE)
        /\ call.run.invoked = {}
        /\ ~call.run.raised

C20_Witness ==
    /\ call.fn = "classify_text_ai"
    /\ call.text = " \n"
    /\ settings.openai_enabled
    /\ call.resp.kind = "object" /\ call.resp.data.role = "PRODUCT"
    /\ call.run.result.role = "UNKNOWN"

\* the signals of the rule-based classifier in the text of the call
HasAddressSignal == AnyIn(lower(call.text), address_keywords)

HasProductSignal == AnyIn(lower(call.text), product_keywords)

HasAmountSignal ==
    \/ AnyIn(lower(call.text), amount_keywords)
    \/ AmountPatternMing(lower(call.text))
    \/ AmountPatternThousands(lower(call.text))
    \/ AmountPatternSumma(lower(call.text))

HasGreeting == AnyIn(lower(call.text), greeting_keywords)

(***************************************************************************)
(* C21: _simple_rule_based answers PRODUCT when a product or amount signal *)
(* is present and no address signal, else COMMENT when an address signal   *)
(* is present, else RANDOM when a greeting is present, else UNKNOWN, and   *)
(* is_order_related is true exactly for PRODUCT and COMMENT.               *)
(***************************************************************************)
C21_RuleBasedDecisionOrder ==
    call.fn = "_simple_rule_based" =>
        /\ call.verdict.role =
              IF (HasProductSignal \/ HasAmountSignal) /\ ~HasAddressSignal THEN "PRODUCT"
              ELSE IF HasAddressSignal THEN "COMMENT"
              ELSE IF HasGreeting THEN "RANDOM"
              ELSE "UNKNOWN"
        /\ call.verdict.is_order_related = (call.verdict.role \in {"PRODUCT", "COMMENT"})

C21_Witness ==
    /\ call.fn = "_simple_rule_based"
    /\ HasAmountSignal /\ HasAddressSignal
    /\ call.verdict.role = "COMMENT" /\ call.verdict.is_order_related

\* the maximal runs of digits of s, as pairs <<first, last>>
DigitRuns(s) ==
    {r \in (1..Len(s)) \X (1..Len(s)) :
        /\ r[1] <= r[2]
        /\ AllDigits(s, r[1], r[2])
        /\ (r[1] = 1 \/ ~IsDigit(Char(s, r[1] - 1)))
        /\ (r[2] = Len(s) \/ ~IsDigit(Char(s, r[2] + 1)))}

\* the runs of exactly 9 digits that do not start with the country code
LocalRuns(s) ==
    {r \in DigitRuns(s) : r[2] - r[1] = 8 /\ ~StartsAt(s, r[1], "998")}

(***************************************************************************)
(* C22, as claimed: a text that holds a run of exactly 9 digits not        *)
(* starting with 998 gives exactly one phone, "+998" and the 9 digits.     *)
(***************************************************************************)
C22_NineDigitRunGivesOnePhone ==
    call.fn = "extract_phones" =>
        \A r \in LocalRuns(call.text) :
            call.found = {"+998" \o SubSeq(call.text, r[1], r[2])}

\* first index left of p, and first right of p, that holds no phone separator
RECURSIVE SkipSeparatorsLeft(_, _)
SkipSeparatorsLeft(s, p) ==
    IF p >= 1 /\ Char(s, p) \in PhoneSeparators THEN SkipSeparatorsLeft(s, p - 1) ELSE p

\* the run r of s is joined by nothing but separators to another digit
JoinedToDigits(s, r) ==
    LET l == SkipSeparatorsLeft(s, r[1] - 1)
        g == SkipSeparators(s, r[2] + 1)
    IN  \/ l >= 1 /\ IsDigit(Char(s, l))
        \/ g <= Len(s) /\ IsDigit(Char(s, g))

(***************************************************************************)
(* C22, amended: ... when no other digit is joined to the run by spaces,   *)
(* hyphens or parentheses alone and the text holds fewer than 9 digits     *)
(* outside the run.                                                        *)
(***************************************************************************)
C22_LoneNineDigitRunGivesOnePhone ==
    call.fn = "extract_phones" =>
        \A r \in LocalRuns(call.text) :
            (/\ ~JoinedToDigits(call.text, r)
             /\ Len(normalize_digits(call.text)) - 9 < 9)
            => call.found = {"+998" \o SubSeq(call.text, r[1], r[2])}

C22_Witness ==
    /\ call.fn = "extract_phones"
    /\ call.text = "ok 5 x 901234567"
    /\ call.found = {"+998901234567"}

\* the matches of PHONE_REGEX in the text of the call, as digit strings
MatchedDigits ==
    LET matches == PHONE_REGEX_findall(call.text, 1)
    IN  {normalize_digits(matches[i]) : i \in DOMAIN matches}

\* the normalization of C23
NormalizedAsClaimed(digits) ==
    IF Len(digits) = 12 /\ StartsAt(digits, 1, "998") THEN "+" \o digits
    ELSE IF Len(digits) = 9 THEN "+998" \o digits
    ELSE "+" \o digits

(***************************************************************************)
(* C23, as claimed: every match of at least 8 digits is returned, 12       *)
(* digits starting with 998 as "+" and the digits, 9 digits as "+998" and  *)
(* the digits, any other length (8 included) as "+" and the digits.        *)
(***************************************************************************)
C23_EveryMatchNormalized ==
    call.fn = "extract_phones" =>
        call.found = {NormalizedAsClaimed(d) : d \in MatchedDigits}

(***************************************************************************)
(* C23, amended: a match of exactly 8 digits gives no phone; the matches   *)
(* of 9 digits and more are normalized as claimed.                         *)
(***************************************************************************)
C23_MatchesFromNineNormalized ==
    call.fn = "extract_phones" =>
        call.found = {NormalizedAsClaimed(d) : d \in {m \in MatchedDigits : Len(m) >= 9}}

C23_Witness ==
    /\ call.fn = "extract_phones"
    /\ \E d \in MatchedDigits : Len(d) = 8
    /\ \E d \in MatchedDigits : Len(d) = 9
    /\ Cardinality(call.found) = 1

\* the phones ps written one after the other, sep between them
RECURSIVE Join(_, _)
Join(ps, sep) ==
    IF ps = <<>> THEN ""
    ELSE IF Len(ps) = 1 THEN ps[1]
    ELSE ps[1] \o sep \o Join(Tail(ps), sep)

\* the sequences that hold every element of S once
Orderings(S) ==
    {q \in [1..Cardinality(S) -> S] : \A x \in S : \E i \in DOMAIN q : q[i] = x}

(***************************************************************************)
(* C24: the phones extract_phones found, written as text in any order     *)
(* and with a blank, a comma or a line break between them, give the same   *)
(* set when extract_phones is applied to that text.                        *)
(***************************************************************************)
C24_ExtractPhonesIdempotent ==
    call.fn = "extract_phones" =>
        \A q \in Orderings(call.found), sep \in {" ", ", ", "\n"} :
            extract_phones(Join(q, sep)) = call.found

C24_Witness ==
    /\ call.fn = "extract_phones"
    /\ "+998901234567" \in call.found /\ "+1234567890" \in call.found
    /\ call.text # Join(<<"+998901234567", "+1234567890">>, ", ")

\* the normalized tokens of the text of a call of extract_spoken_phone_candidates
SpokenTokens ==
    LET toks == TokensFrom(call.text, 1)
    IN  [i \in DOMAIN toks |-> _normalize_token(toks[i])]

IsNumberWord(w) == w \in DOMAIN DIGIT_WORDS_PHONE

EndsRunUnlessNumber(w) == ~IsNumberWord(w)

EndsRunUnlessNumberOrScale(w) == ~IsNumberWord(w) /\ w \notin PhoneScaleWords

\* the maximal stretches <<i, j>> of toks that hold no token that ends a run
Stretches(toks, EndsRun(_)) ==
    {ij \in (DOMAIN toks) \X (DOMAIN toks) :
        /\ ij[1] <= ij[2]
        /\ \A k \in ij[1]..ij[2] : ~EndsRun(toks[k])
        /\ ij[1] = 1 \/ EndsRun(toks[ij[1] - 1])
        /\ ij[2] = Len(toks) \/ EndsRun(toks[ij[2] + 1])}

\* the digits of the number words of toks[i..j], one after the other
RECURSIVE StretchDigits(_, _, _)
StretchDigits(toks, i, j) ==
    IF i > j THEN ""
    ELSE (IF IsNumberWord(toks[i]) THEN DIGIT_WORDS_PHONE[toks[i]] ELSE "")
         \o StretchDigits(toks, i + 1, j)

\* the digits of the runs of number words of toks
RunDigits(toks, EndsRun(_)) ==
    {StretchDigits(toks, ij[1], ij[2]) : ij \in Stretches(toks, EndsRun)} \ {""}

LastNine(d) == IF Len(d) > 9 THEN SubSeq(d, Len(d) - 8, Len(d)) ELSE d

(***************************************************************************)
(* C25: every candidate of extract_spoken_phone_candidates is a string of  *)
(* 5 to 9 digits and no candidate is returned twice; the candidates are    *)
(* the runs of number words of at least 5 digits, a run of more than 9     *)
(* digits cut to its last 9.  (A run is a stretch of tokens without a      *)
(* word that is neither a number word nor a scale word, see C26.)          *)
(***************************************************************************)
C25_SpokenCandidatesFiveToNineDigits ==
    call.fn = "extract_spoken_phone_candidates" =>
        LET c == call.candidates
        IN  /\ \A i \in DOMAIN c : AllDigits(c[i], 1, Len(c[i])) /\ Len(c[i]) \in 5..9
            /\ \A i, j \in DOMAIN c : c[i] = c[j] => i = j
            /\ {c[i] : i \in DOMAIN c}
                 = {LastNine(d) : d \in {r \in RunDigits(SpokenTokens,
                                                         EndsRunUnlessNumberOrScale) :
                                             Len(r) >= 5}}

C25_Witness ==
    /\ call.fn = "extract_spoken_phone_candidates"
    /\ \E d \in RunDigits(SpokenTokens, EndsRunUnlessNumberOrScale) : Len(d) > 9
    /\ \E d \in RunDigits(SpokenTokens, EndsRunUnlessNumberOrScale) : Len(d) < 5
    /\ call.candidates = <<"901234567">>

(***************************************************************************)
(* C26 as stated: a scale token (yuz, ming, million, mln) ends the run of  *)
(* number words, so the candidates are the runs of adjacent number words.  *)
(***************************************************************************)
C26_ScaleTokenEndsRun ==
    call.fn = "extract_spoken_phone_candidates" =>
        {call.candidates[i] : i \in DOMAIN call.candidates}
          = {LastNine(d) : d \in {r \in RunDigits(SpokenTokens, EndsRunUnlessNumber) :
                                      Len(r) >= 5}}

\* the stretches in which a scale token stands between two number words
StretchesAcrossScale ==
    {ij \in Stretches(SpokenTokens, EndsRunUnlessNumberOrScale) :
        \E k \in ij[1]..ij[2] :
            /\ SpokenTokens[k] \in PhoneScaleWords
            /\ \E b \in ij[1]..(k - 1) : IsNumberWord(SpokenTokens[b])
            /\ \E a \in (k + 1)..ij[2] : IsNumberWord(SpokenTokens[a])}

(***************************************************************************)
(* C26 amended: a scale token is skipped and does not end the run: the     *)
(* number words before and after it give one digit string, which is a      *)
(* candidate (cut to its last 9 digits) when it has at least 5 digits and  *)
(* gives no candidate otherwise.                                           *)
(***************************************************************************)
C26_ScaleTokenSkippedInsideRun ==
    call.fn = "extract_spoken_phone_candidates" =>
        \A ij \in StretchesAcrossScale :
            LET d == StretchDigits(SpokenTokens, ij[1], ij[2])
            IN  /\ Len(d) >= 5 =>
                      \E i \in DOMAIN call.candidates : call.candidates[i] = LastNine(d)
                /\ \A ab \in Stretches(SpokenTokens, EndsRunUnlessNumber) :
                      (ab[1] >= ij[1] /\ ab[2] <= ij[2] /\ ab # ij) =>
                          LET part == StretchDigits(SpokenTokens, ab[1], ab[2])
                          IN  (Len(part) >= 5 /\ LastNine(part) # LastNine(d)) =>
                                  \A i \in DOMAIN call.candidates :
                                      call.candidates[i] # LastNine(part)
                                      \/ \E xy \in Stretches(SpokenTokens,
                                                             EndsRunUnlessNumberOrScale) :
                                             /\ xy # ij
                                             /\ LastNine(StretchDigits(SpokenTokens,
                                                                       xy[1], xy[2]))
                                                  = LastNine(part)

C26_Witness ==
    /\ call.fn = "extract_spoken_phone_candidates"
    /\ StretchesAcrossScale # {}
    /\ call.candidates = <<"234567890">>

\* the number that the numeral PhraseTokens(h, t, u) stands for
PhraseValue(h, t, u) == 1000 * (100 * (IF h = 10 THEN 1 ELSE h) + 10 * t + u)

\* the numerals that hold a number word: all but "ming" on its own
Numerals == (PhraseHundreds \X PhraseTens \X PhraseUnits) \ {<<0, 0, 0>>}

\* extract_amount_from_text was applied and returned v
AmountIs(v) ==
    /\ call.fn = "extract_amount_from_text"
    /\ call.chosen.best # 0
    /\ call.chosen.amount = v

\* extract_amount_from_text was applied and returned None
NoAmount == call.fn = "extract_amount_from_text" /\ call.chosen.best = 0

\* the two examples and the rule for a digit value under 1000 before "ming"
ThousandWordExamples ==
    call.fn = "extract_amount_from_text" =>
        /\ call.text = "300 ming" => AmountIs(300000)
        /\ call.text = "ikki yuz ellik ming" => AmountIs(250000)
        /\ \A n \in SmallValues : call.text = ToString(n) \o " ming" => AmountIs(1000 * n)
        /\ \A i \in DOMAIN call.chosen.scored :
              LET c == call.chosen.scored[i]
                  base == ParseInt(normalize_digits(SubSeq(call.text, c.first, c.last)))
              IN  (/\ c.first # 0
                   /\ base < 1000
                   /\ AnyIn(AmountWindow(call.text, <<c.first, c.last>>), ThousandWords))
                  => c.value = 1000 * base

(***************************************************************************)
(* C27 as stated: "300 ming" gives 300000 and "ikki yuz ellik ming" gives  *)
(* 250000; a digit value under 1000 with a thousand-word nearby counts     *)
(* 1000 times, and every numeral of units, tens and the hundred-word that  *)
(* ends in the thousand-word gives its numeric value.                      *)
(***************************************************************************)
C27_ThousandWordAmounts ==
    /\ ThousandWordExamples
    /\ \A n \in Numerals :
          (/\ call.fn = "extract_amount_from_text"
           /\ call.text = JoinTokens(PhraseTokens(n[1], n[2], n[3])))
          => AmountIs(PhraseValue(n[1], n[2], n[3]))

(***************************************************************************)
(* C27 amended: the examples and the digit rule as stated; a numeral gives *)
(* its numeric value as the amount when it holds the hundred-word "yuz",   *)
(* and no amount when it does not, although _parse_number_phrase evaluates *)
(* every such numeral to its numeric value.                                *)
(***************************************************************************)
C27_ThousandWordAmountsNeedHundred ==
    /\ ThousandWordExamples
    /\ \A n \in Numerals :
          /\ (/\ call.fn = "extract_amount_from_text"
              /\ call.text = JoinTokens(PhraseTokens(n[1], n[2], n[3])))
             => IF n[1] # 0 THEN AmountIs(PhraseValue(n[1], n[2], n[3])) ELSE NoAmount
          /\ (/\ call.fn = "_parse_number_phrase"
              /\ call.tokens = PhraseTokens(n[1], n[2], n[3]))
             => call.value = PhraseValue(n[1], n[2], n[3])

C27_Witness ==
    /\ call.fn = "extract_amount_from_text"
    /\ call.text = "ikki yuz ellik ming"
    /\ call.chosen.scored = <<[value |-> 250000, score |-> 5, first |-> 0, last |-> 0]>>
    /\ call.chosen.amount = 250000

\* the matches of PHONE_REGEX in s from index i on, as pairs <<first, last>>
RECURSIVE PhoneMatchSpans(_, _)
PhoneMatchSpans(s, i) ==
    IF i > Len(s) THEN {}
    ELSE IF PhoneMatchEnd(s, i) = 0 THEN PhoneMatchSpans(s, i + 1)
    ELSE {<<i, PhoneMatchEnd(s, i)>>} \cup PhoneMatchSpans(s, PhoneMatchEnd(s, i) + 1)

\* the places in s of the phones that extract_phones(s) returns
PhoneSpans(s) ==
    {m \in PhoneMatchSpans(s, 1) : normalize_phone(SubSeq(s, m[1], m[2])) # None}

(***************************************************************************)
(* C28: the amount extract_amount_from_text returns is never built from    *)
(* digits that lie in a phone extract_phones finds in the same text.       *)
(***************************************************************************)
C28_AmountNotFromPhoneDigits ==
    (call.fn = "extract_amount_from_text" /\ call.chosen.best # 0) =>
        LET c == call.chosen.scored[call.chosen.best]
        IN  c.first # 0 =>
                \A m \in PhoneSpans(call.text) :
                    \A k \in c.first..c.last :
                        IsDigit(Char(call.text, k)) => ~(m[1] <= k /\ k <= m[2])

\* the score of the claim for the match m; a value from lowest up to 99 loses a point
ClaimedScore(cleaned, m, lowest) ==
    LET base == ParseInt(normalize_digits(SubSeq(cleaned, m[1], m[2])))
        window == AmountWindow(cleaned, m)
        times1000 == base < 1000 /\ AnyIn(window, ThousandWords)
        value == IF times1000 THEN 1000 * base ELSE base
    IN  [value |-> value,
         score |-> (IF AnyIn(window, MONEY_KEYWORDS) THEN 3 ELSE 0)
                   + (IF times1000 THEN 2 ELSE 0)
                   + (IF value >= 1000 THEN 2 ELSE 0)
                   + (IF lowest <= value /\ value < 100 THEN -1 ELSE 0)]

\* the candidates of the text of the call with the scores of the claim
ClaimedCandidates(lowest) ==
    LET phrases == _extract_yuz_ming_candidates(call.text)
        matches == DigitMatches(call.text, 1)
    IN  {[value |-> phrases[i], score |-> 5] : i \in DOMAIN phrases}
        \cup {ClaimedScore(call.text, matches[i], lowest) :
                i \in {k \in DOMAIN matches :
                         ~_looks_like_phone(normalize_digits(
                              SubSeq(call.text, matches[k][1], matches[k][2])))}}

\* the call returned the value of the highest score, the larger value on a tie
ReturnsBestOf(candidates) ==
    IF candidates = {} THEN NoAmount
    ELSE \E c \in candidates :
            /\ AmountIs(c.value)
            /\ \A d \in candidates :
                  d.score < c.score \/ (d.score = c.score /\ d.value <= c.value)

C30_ReplyUpdateLeavesSessions ==
    [][last'.op = "reply_update" => UNCHANGED <<SESSIONS, heap, hist, inflight, tasks>>]_vars

\* the update cancelled the order of a completed session and saved a new one
C30_Witness ==
    /\ last.op = "reply_update" /\ last.acted
    /\ SESSIONS[last.key] = 0
    /\ \E i \in DOMAIN orders :
          /\ orders[i].cancelled
          /\ heap[orders[i].sid].is_completed
          /\ orders[Len(orders)].location # orders[i].location
          /\ orders[Len(orders)].phones = orders[i].phones

(***************************************************************************)
(* C31: a handled reply to the message of an order never cancels the       *)
(* order and never adds an order record: the record is updated in place.   *)
(***************************************************************************)
C31_ReplyUpdateInPlace ==
    [][last'.op = "reply_update" =>
          /\ Len(orders') = Len(orders)
          /\ \A i \in DOMAIN orders : orders'[i].cancelled = orders[i].cancelled]_vars

\* the step applies a message, without suspension, to a session that was not
\* ready (or was not there) and is ready and not completed afterwards
MakesReady ==
    /\ Applied' /\ ~last'.suspended
    /\ ~(last'.oldsid = last'.sid /\ HasPhonesAndLocation(heap[last'.sid]))
    /\ HasPhonesAndLocation(heap'[last'.sid])
    /\ ~heap'[last'.sid].is_completed

(***************************************************************************)
(* C32: the message that makes a non-completed session ready (the first    *)
(* phone with a location set, or the first location with phones present)   *)
(* schedules the finalization of the session.                              *)
(***************************************************************************)
C32_ReadyingMessageSchedules ==
    [][MakesReady => last'.scheduled]_vars

(***************************************************************************)
(* C33: as long as a session object lives its phones only grow and its     *)
(* location, once set, stays set, so a session that is ready is ready      *)
(* after every later step.                                                 *)
(***************************************************************************)
C33_ReadyStaysReady ==
    [][\A sid \in DOMAIN heap :
          /\ heap[sid].phones \subseteq heap'[sid].phones
          /\ heap[sid].location # NoLocation => heap'[sid].location # NoLocation
          /\ is_session_ready(heap[sid]) => is_session_ready(heap'[sid])]_vars

\* a session that was ready took a further message that brought no location
C33_Witness ==
    /\ Applied /\ last.oldsid = last.sid
    /\ ~last.first_phone /\ ~last.first_location
    /\ extract_location_from_message(last.msg) = NoLocation
    /\ Len(heap[last.sid].raw_messages) = 2
    /\ is_session_ready(heap[last.sid])

(***************************************************************************)
(* C34: a message diverted to the non-order path leaves phones, location,  *)
(* is_completed, updated_at and raw_messages of the session as they were   *)
(* and schedules no finalization.                                          *)
(***************************************************************************)
C34_DivertedLeavesSession ==
    [][(Applied' /\ last'.diverted /\ last'.oldsid = last'.sid) =>
          /\ heap'[last'.sid] = heap[last'.sid]
          /\ tasks' = tasks]_vars

(***************************************************************************)
(* C35: a group message that arrives for a key while the key has a manual  *)
(* order state is taken by the step handler of the manual order: the step  *)
(* is not one of the reply update or of the aggregation, and it leaves the *)
(* sessions, the suspended invocations of the aggregation and the tasks of *)
(* the finalization as they were.                                          *)
(***************************************************************************)
C35_ManualStateConsumesMessages ==
    [][\A k \in Keys :
          (manual_order_state[k] # NoManual /\ delivered' = delivered + 1 /\ last'.key = k)
          => /\ last'.op = "manual"
             /\ UNCHANGED <<SESSIONS, heap, hist, inflight, tasks>>]_vars

\* a message with a phone was taken by the step handler while its key had a session
C35_Witness ==
    /\ last.op = "manual"
    /\ SESSIONS[last.key] # 0
    /\ extract_phones_of[last.msg.text] # {}

\* the moves of the step of a key along amount, location, phones, removed
ForwardMoves ==
    {<<"none", "amount">>, <<"amount", "location">>, <<"location", "phones">>,
     <<"phones", "none">>}

\* the input a step asks for: a text, a location or a text, a phone
ValidInput(step, msg) ==
    IF step = "amount" THEN ~IsBlank(msg.text)
    ELSE IF step = "location"
    THEN extract_location_from_message(msg) # NoLocation \/ ~IsBlank(msg.text)
    ELSE extract_phones(msg.text) # {}

\* the message of this step was delivered for key k, which had the state before
ManualMessageFor(k, before) ==
    /\ before # NoManual
    /\ delivered' = delivered + 1
    /\ last'.key = k

(***************************************************************************)
(* C36: the step of the manual order of a key only moves forward along     *)
(* amount, location, phones, removed.  Every step of the program leaves    *)
(* the step of a key where it is or moves it one place forward; a message  *)
(* with valid input for the step amount or location moves it one place; a *)
(* message without valid input leaves the state, data included, as it is;  *)
(* and the handler of a message with a phone at the step phones ends with  *)
(* the state removed.                                                      *)
(***************************************************************************)
C36_ManualStepOnlyForward ==
    [][\A k \in Keys :
          LET before == manual_order_state[k]
              after  == manual_order_state'[k]
          IN  /\ before.step = after.step \/ <<before.step, after.step>> \in ForwardMoves
              /\ ManualMessageFor(k, before) =>
                    IF ValidInput(before.step, last'.msg)
                    THEN before.step = "phones"
                         \/ <<before.step, after.step>> \in ForwardMoves
                    ELSE after = before
              /\ (last'.op = "manual_resume" /\ last'.key = k) => after = NoManual]_vars

\* the part of C36 that is about the messages at the steps amount and location
C36_MessagesMoveOneStep ==
    [][\A k \in Keys :
          LET before == manual_order_state[k]
              after  == manual_order_state'[k]
          IN  ManualMessageFor(k, before) =>
                 /\ before.step = after.step \/ <<before.step, after.step>> \in ForwardMoves
                 /\ IF ValidInput(before.step, last'.msg)
                    THEN before.step = "phones"
                         \/ <<before.step, after.step>> \in ForwardMoves
                    ELSE after = before]_vars

(***************************************************************************)
(* C37: the handler of a message with a phone at the step phones ends with *)
(* the state of its key removed, whether save_order_row wrote the row or   *)
(* raised; and when it raised, no order message is sent and no line is     *)
(* written to the dataset of the manual orders.                            *)
(***************************************************************************)
C37_PhonesStepRemovesState ==
    [][last'.op = "manual_resume" =>
          /\ manual_order_state'[last'.key] = NoManual
          /\ ~last'.acted => /\ manual_out'.messages = manual_out.messages
                             /\ manual_out'.dataset = manual_out.dataset]_vars

\* the part of C37 that is about a failed save
C37_FailedSaveSendsNothing ==
    [][(last'.op = "manual_resume" /\ ~last'.acted) =>
          /\ manual_out'.messages = manual_out.messages
          /\ manual_out'.dataset = manual_out.dataset
          /\ orders' = orders]_vars

\* the phones extract_phones finds in one of the raw messages
PhonesInMessages(raw_messages) ==
    UNION {extract_phones(raw_messages[i]) : i \in DOMAIN raw_messages}

(***************************************************************************)
(* C38: for a non-empty set of phones the list choose_client_phones        *)
(* returns is not empty, is in ascending order without a phone twice, and  *)
(* every member is one of the phones given or a phone found in a raw       *)
(* message; for the empty set of phones it is the empty list.              *)
(***************************************************************************)
C38_ChosenPhonesSortedFromInputs ==
    call.fn = "choose_client_phones" =>
        LET returned == call.returned
        IN  IF call.phones = {} THEN returned = <<>>
            ELSE /\ returned # <<>>
                 /\ \A i, j \in DOMAIN returned : i < j => StrLess(returned[i], returned[j])
                 /\ \A i \in DOMAIN returned :
                       returned[i] \in call.phones \cup PhonesInMessages(call.raw_messages)
                 /\ {returned[i] : i \in DOMAIN returned} = call.result

\* two phones are returned, one of them found in a message only
C38_Witness ==
    /\ call.fn = "choose_client_phones"
    /\ Len(call.returned) = 2
    /\ \E i \in DOMAIN call.returned : call.returned[i] \notin call.phones

\* the stripped texts of the raw messages at the indices in I, in their order
RECURSIVE PickTexts(_, _, _)
PickTexts(raw_messages, I, i) ==
    IF i > Len(raw_messages) THEN <<>>
    ELSE (IF i \in I THEN <<strip(raw_messages[i])>> ELSE <<>>)
         \o PickTexts(raw_messages, I, i + 1)

=============================================================================
